---- MODULE Spec2Model ----
(***************************************************************************)
(* galendar: special-day loading (date-key resolver, ((...)) expression    *)
(* evaluator, skip policy, store assembly) and the month-grid builder.     *)
(*                                                                         *)
(* Strings are sequences of one-character strings, so that tokenizing,     *)
(* number parsing/formatting and pattern matching are computed, not        *)
(* assumed.  Dates are records [y, m, d] normalised the way time.Date      *)
(* normalises them.                                                        *)
(***************************************************************************)
EXTENDS Integers, Sequences, FiniteSets, TLC

VARIABLES
    pc,        \* position of the run: "start", "loaded", "failed", "evaluated"
    cfg,       \* Config passed to the load: [Year, Month, WeekStart]
    file,      \* decoded special-days file: [DateFormat, Day (sequence of records)]
    days,      \* SpecialDays returned by the load (Nil for a nil map)
    err,       \* error returned by the load (NoErr for nil)
    cal,       \* Calendar returned by NewCalendar
    calErr,    \* error returned by NewCalendar
    clone,     \* result [cal, err] of the last cal.CloneAt of the year loop
    text,      \* the text given to evaluateExpressionsWithSkip (evaluator runs),
               \* as the sequence of its parts: literals and ((...)) markers
    date,      \* date argument of evaluateExpressionsWithSkip (evaluator runs)
    out        \* result of evaluateExpressionsWithSkip: [result, skip, err]

vars == <<pc, cfg, file, days, err, cal, calErr, clone, text, date, out>>

NoErr == "nil"

(***************************************************************************)
(* Bounds of the model.                                                    *)
(***************************************************************************)
MinYear == 2023
MaxYear == 2025
MaxRecords == 2
MaxParts == 2
MaxLoads == 3

Years == MinYear..MaxYear

(***************************************************************************)
(* Characters and strings.                                                 *)
(***************************************************************************)
Digits == <<"0", "1", "2", "3", "4", "5", "6", "7", "8", "9">>

IsDigit(c) == \E i \in 1..10 : Digits[i] = c

DigitVal(c) == (CHOOSE i \in 1..10 : Digits[i] = c) - 1

Upper == <<"A","B","C","D","E","F","G","H","I","J","K","L","M",
           "N","O","P","Q","R","S","T","U","V","W","X","Y","Z">>

Lower == <<"a","b","c","d","e","f","g","h","i","j","k","l","m",
           "n","o","p","q","r","s","t","u","v","w","x","y","z">>

\* strings.ToLower on one character
LowerChar(c) ==
    IF \E i \in 1..26 : Upper[i] = c
    THEN Lower[CHOOSE i \in 1..26 : Upper[i] = c]
    ELSE c

\* strings.ToLower
ToLower(s) == [i \in 1..Len(s) |-> LowerChar(s[i])]

RECURSIVE TrimLeft(_)
TrimLeft(s) ==
    IF s # <<>> /\ Head(s) = " " THEN TrimLeft(Tail(s)) ELSE s

RECURSIVE TrimRight(_)
TrimRight(s) ==
    IF s # <<>> /\ s[Len(s)] = " " THEN TrimRight(SubSeq(s, 1, Len(s) - 1)) ELSE s

\* strings.TrimSpace
TrimSpace(s) == TrimRight(TrimLeft(s))

\* strings.HasPrefix
HasPrefix(s, p) == Len(s) >= Len(p) /\ SubSeq(s, 1, Len(p)) = p

\* s[n:] of Go, n counted from 0
From(s, n) == SubSeq(s, n + 1, Len(s))

RECURSIVE DigitsValue(_, _)
DigitsValue(s, acc) ==
    IF s = <<>> THEN acc ELSE DigitsValue(Tail(s), acc * 10 + DigitVal(Head(s)))

AllDigits(s) == s # <<>> /\ \A i \in 1..Len(s) : IsDigit(s[i])

\* strconv.Atoi: an optional sign followed by one or more decimal digits
Atoi(s) ==
    LET body == IF s # <<>> /\ Head(s) \in {"+", "-"} THEN Tail(s) ELSE s
    IN  IF AllDigits(body)
        THEN [ok |-> TRUE,
              val |-> IF s[1] = "-" THEN 0 - DigitsValue(body, 0)
                                    ELSE DigitsValue(body, 0)]
        ELSE [ok |-> FALSE, val |-> 0]

RECURSIVE NatToStr(_)
NatToStr(n) ==
    IF n < 10 THEN <<Digits[n + 1]>>
    ELSE NatToStr(n \div 10) \o <<Digits[(n % 10) + 1]>>

\* strconv.Itoa
Itoa(n) == IF n < 0 THEN <<"-">> \o NatToStr(0 - n) ELSE NatToStr(n)

(***************************************************************************)
(* Dates: time.Date, AddDate, Weekday, After.                              *)
(***************************************************************************)
IsLeap(y) == y % 4 = 0 /\ (y % 100 # 0 \/ y % 400 = 0)

DaysIn(m, y) ==
    IF m = 2 THEN (IF IsLeap(y) THEN 29 ELSE 28)
    ELSE IF m \in {4, 6, 9, 11} THEN 30 ELSE 31

\* days since 1970-01-01 of a valid civil date
DayNum(y, m, d) ==
    LET y1  == IF m <= 2 THEN y - 1 ELSE y
        era == y1 \div 400
        yoe == y1 - era * 400
        mp  == IF m > 2 THEN m - 3 ELSE m + 9
        doy == (153 * mp + 2) \div 5 + d - 1
        doe == yoe * 365 + yoe \div 4 - yoe \div 100 + doy
    IN  era * 146097 + doe - 719468

\* the civil date of a day number
CivilFromDays(n) ==
    LET z   == n + 719468
        era == z \div 146097
        doe == z - era * 146097
        yoe == (doe - doe \div 1460 + doe \div 36524 - doe \div 146096) \div 365
        doy == doe - (365 * yoe + yoe \div 4 - yoe \div 100)
        mp  == (5 * doy + 2) \div 153
        d   == doy - (153 * mp + 2) \div 5 + 1
        m   == IF mp < 10 THEN mp + 3 ELSE mp - 9
        y   == yoe + era * 400 + (IF m <= 2 THEN 1 ELSE 0)
    IN  [y |-> y, m |-> m, d |-> d]

\* time.Date(y, m, d, 0, 0, 0, 0, time.UTC): month and day overflow are normalised
TimeDate(y, m, d) ==
    LET yy == y + (m - 1) \div 12
        mm == ((m - 1) % 12) + 1
    IN  IF d >= 1 /\ d <= DaysIn(mm, yy) THEN [y |-> yy, m |-> mm, d |-> d]
        ELSE CivilFromDays(DayNum(yy, mm, 1) + d - 1)

\* t.AddDate(years, months, days)
AddDate(t, years, months, ds) == TimeDate(t.y + years, t.m + months, t.d + ds)

\* t.Weekday(): 0 = Sunday .. 6 = Saturday
Weekday(t) == (DayNum(t.y, t.m, t.d) + 4) % 7

\* t.After(u)
After(t, u) ==
    \/ t.y > u.y
    \/ t.y = u.y /\ t.m > u.m
    \/ t.y = u.y /\ t.m = u.m /\ t.d > u.d

(***************************************************************************)
(* The embedded expression language.                                       *)
(***************************************************************************)
W_year  == <<"y", "e", "a", "r">>
W_month == <<"m", "o", "n", "t", "h">>
W_day   == <<"d", "a", "y">>
W_cfg   == <<"c", "f", "g", ".">>

\* appends the accumulated token, trimmed, when there is one
FlushToken(tokens, current) ==
    IF Len(current) > 0 THEN Append(tokens, TrimSpace(current)) ELSE tokens

\* is a "-" a unary minus: at the start or right after an operator
IsUnaryMinus(char, toks) ==
    char = "-" /\ (Len(toks) = 0 \/ toks[Len(toks)] = <<"+">> \/ toks[Len(toks)] = <<"-">>)

RECURSIVE TokenizeFrom(_, _, _, _)

\* the '+', '-' case of tokenizeExpression; toks is the token list after the
\* accumulated token was added
TokenizeSign(expr, i, toks, char) ==
    IF IsUnaryMinus(char, toks)
    THEN TokenizeFrom(expr, i + 1, toks, <<char>>)
    ELSE TokenizeFrom(expr, i + 1, Append(toks, <<char>>), <<>>)

\* the loop of tokenizeExpression from the character at position i on
TokenizeFrom(expr, i, tokens, current) ==
    IF i > Len(expr) THEN FlushToken(tokens, current)
    ELSE IF expr[i] \in {"+", "-"}
    THEN TokenizeSign(expr, i, FlushToken(tokens, current), expr[i])
    ELSE IF expr[i] = " "
    THEN TokenizeFrom(expr, i + 1, tokens,
                      IF Len(current) > 0 THEN Append(current, expr[i]) ELSE current)
    ELSE TokenizeFrom(expr, i + 1, tokens, Append(current, expr[i]))

\* tokenizeExpression splits an expression into tokens (values and operators)
tokenizeExpression(expr) == TokenizeFrom(TrimSpace(expr), 1, <<>>, <<>>)

Value(v) == [err |-> NoErr, val |-> v]
ValueErr(e) == [err |-> e, val |-> 0]

\* a faulty resolveCfg: the whole-year month 0 reads as the first month
resolveCfgFirstMonth(prop, c) ==
    IF prop = W_year THEN Value(c.Year)
    ELSE IF prop = W_month THEN Value(IF c.Month = 0 THEN 1 ELSE c.Month)
    ELSE ValueErr("unknown config property")

\* the cfg.<property> switch of resolveValue
resolveCfg(prop, c) ==
    IF prop = W_year THEN Value(c.Year)
    ELSE IF prop = W_month THEN Value(c.Month)
    ELSE ValueErr("unknown config property")

\* the date-property switch of resolveValue
resolveDate(tokenLower, dt) ==
    IF tokenLower = W_year THEN Value(dt.y)
    ELSE IF tokenLower = W_month THEN Value(dt.m)
    ELSE IF tokenLower = W_day THEN Value(dt.d)
    ELSE ValueErr("unknown variable")

\* the variable part of resolveValue: cfg.<property>, else a date property
resolveVariable(tokenLower, c, dt) ==
    IF HasPrefix(tokenLower, W_cfg) THEN resolveCfg(From(tokenLower, Len(W_cfg)), c)
    ELSE resolveDate(tokenLower, dt)

\* the unary minus of resolveValue applied to the value of the rest
Negate(r) == IF r.err # NoErr THEN ValueErr(r.err) ELSE Value(0 - r.val)

RECURSIVE resolveValue(_, _, _)

\* a faulty resolveToken: the variable is looked up as written
resolveTokenAsWritten(token, num, c, dt) ==
    IF num.ok THEN Value(num.val)
    ELSE IF HasPrefix(token, <<"-">>) THEN Negate(resolveValue(From(token, 1), c, dt))
    ELSE IF HasPrefix(token, <<"+">>) THEN resolveValue(From(token, 1), c, dt)
    ELSE resolveVariable(token, c, dt)

\* resolveValue on a trimmed, non-empty token whose strconv.Atoi result is num
resolveToken(token, num, c, dt) ==
    IF num.ok THEN Value(num.val)
    ELSE IF HasPrefix(token, <<"-">>) THEN Negate(resolveValue(From(token, 1), c, dt))
    ELSE IF HasPrefix(token, <<"+">>) THEN resolveValue(From(token, 1), c, dt)
    ELSE resolveVariable(ToLower(token), c, dt)

\* resolveValue on the trimmed token
resolveTrimmed(token, c, dt) ==
    IF token = <<>> THEN ValueErr("empty token")
    ELSE resolveToken(token, Atoi(token), c, dt)

\* resolveValue resolves a token to an integer value
resolveValue(tok, c, dt) == resolveTrimmed(TrimSpace(tok), c, dt)

\* a faulty ApplyOperator: the subtraction the wrong way round
ApplyOperatorSwapped(operator, result, operand) ==
    IF operator = <<"+">> THEN Value(result + operand)
    ELSE IF operator = <<"-">> THEN Value(operand - result)
    ELSE ValueErr("unsupported operator")

\* the operator switch of evaluateArithmetic
ApplyOperator(operator, result, operand) ==
    IF operator = <<"+">> THEN Value(result + operand)
    ELSE IF operator = <<"-">> THEN Value(result - operand)
    ELSE ValueErr("unsupported operator")

RECURSIVE ArithFrom(_, _, _, _, _)

\* a turn of the loop of evaluateArithmetic once the operator was applied
ArithApplied(tokens, i, r, c, dt) ==
    IF r.err # NoErr THEN r ELSE ArithFrom(tokens, i + 2, r.val, c, dt)

\* a turn of the loop of evaluateArithmetic once the operand was resolved
ArithOperand(tokens, i, result, operand, c, dt) ==
    IF operand.err # NoErr THEN ValueErr(operand.err)
    ELSE ArithApplied(tokens, i, ApplyOperator(tokens[i], result, operand.val), c, dt)

\* the loop of evaluateArithmetic; i is the 1-based position of the operator
ArithFrom(tokens, i, result, c, dt) ==
    IF i > Len(tokens) THEN Value(result)
    ELSE IF i + 1 > Len(tokens) THEN ValueErr("incomplete expression")
    ELSE ArithOperand(tokens, i, result, resolveValue(tokens[i + 1], c, dt), c, dt)

\* evaluateArithmetic once the first token was resolved
ArithFirst(tokens, first, c, dt) ==
    IF first.err # NoErr THEN ValueErr(first.err)
    ELSE ArithFrom(tokens, 2, first.val, c, dt)

\* evaluateArithmetic on the tokens of the expression
ArithTokens(tokens, c, dt) ==
    IF Len(tokens) = 0 THEN ValueErr("no tokens in expression")
    ELSE ArithFirst(tokens, resolveValue(tokens[1], c, dt), c, dt)

\* evaluateArithmetic on the trimmed expression
ArithTrimmed(expr, c, dt) ==
    IF expr = <<>> THEN ValueErr("empty expression")
    ELSE ArithTokens(tokenizeExpression(expr), c, dt)

\* evaluateArithmetic evaluates a simple arithmetic expression with + and -
evaluateArithmetic(e, c, dt) == ArithTrimmed(TrimSpace(e), c, dt)

\* position of the first ")" of s at or after j, 0 when there is none
RECURSIVE FirstClose(_, _)
FirstClose(s, j) ==
    IF j > Len(s) THEN 0
    ELSE IF s[j] = ")" THEN j
    ELSE FirstClose(s, j + 1)

\* the end of a match that opens at i and whose first ")" is at j
MatchClose(s, i, j) ==
    IF j > i + 2 /\ j + 1 <= Len(s) /\ s[j + 1] = ")" THEN j + 1 ELSE 0

\* the pattern \(\(([^)]+)\)\) anchored at i: the position of its last
\* character, 0 when it does not match there
MatchEnd(s, i) ==
    IF i + 1 <= Len(s) /\ s[i] = "(" /\ s[i + 1] = "("
    THEN MatchClose(s, i, FirstClose(s, i + 2))
    ELSE 0

RECURSIVE FindAllFrom(_, _)

\* the scan at position i, where the pattern ends at e (0: no match at i)
FindAllAt(s, i, e) ==
    IF e # 0 THEN <<[b |-> i, e |-> e]>> \o FindAllFrom(s, e + 1)
    ELSE FindAllFrom(s, i + 1)

\* leftmost non-overlapping matches from i on, each as [b, e], the positions
\* of its first and last character
FindAllFrom(s, i) ==
    IF i > Len(s) THEN <<>> ELSE FindAllAt(s, i, MatchEnd(s, i))

\* pattern.FindAllStringSubmatch(text, -1)
FindAllStringSubmatch(s) == FindAllFrom(s, 1)

\* match[0] and match[1] of a submatch
MatchText(s, mt) == SubSeq(s, mt.b, mt.e)
MatchExpr(s, mt) == SubSeq(s, mt.b + 2, mt.e - 2)

\* a faulty SkipValue: zero does not skip
SkipNegative(value) == value < 0

\* the skip test of evaluateExpressionsWithSkip
SkipValue(value) == value <= 0

\* values[match[0]] = value
PutValue(values, key, value) ==
    [x \in (DOMAIN values) \cup {key} |-> IF x = key THEN value ELSE values[x]]

RECURSIVE EvalMatches(_, _, _, _, _, _, _)

\* a turn of the first loop of evaluateExpressionsWithSkip, r being the
\* value of the expression of match k
EvalMatch(s, matches, k, shouldSkip, values, c, dt, r) ==
    IF r.err # NoErr THEN [err |-> r.err, skip |-> FALSE, values |-> values]
    ELSE EvalMatches(s, matches, k + 1, shouldSkip \/ SkipValue(r.val),
                     PutValue(values, MatchText(s, matches[k]), r.val), c, dt)

\* the first loop of evaluateExpressionsWithSkip over matches k..: values is
\* the map from match text to value
EvalMatches(s, matches, k, shouldSkip, values, c, dt) ==
    IF k > Len(matches) THEN [err |-> NoErr, skip |-> shouldSkip, values |-> values]
    ELSE EvalMatch(s, matches, k, shouldSkip, values, c, dt,
                   evaluateArithmetic(MatchExpr(s, matches[k]), c, dt))

\* the replacement callback of evaluateExpressionsWithSkip
ReplaceMatch(match, values) ==
    IF match \in DOMAIN values THEN Itoa(values[match]) ELSE match

\* pattern.ReplaceAllStringFunc: text from position i on, matches k.. replaced
RECURSIVE ReplaceFrom(_, _, _, _, _)
ReplaceFrom(s, matches, k, i, values) ==
    IF k > Len(matches) THEN SubSeq(s, i, Len(s))
    ELSE SubSeq(s, i, matches[k].b - 1)
         \o ReplaceMatch(MatchText(s, matches[k]), values)
         \o ReplaceFrom(s, matches, k + 1, matches[k].e + 1, values)

\* a faulty Substitute: on an error the markers evaluated so far are replaced
SubstitutePartial(s, matches, ev) ==
    [result |-> ReplaceFrom(s, matches, 1, 1, ev.values), skip |-> ev.skip,
     err |-> ev.err]

\* the end of evaluateExpressionsWithSkip: ev is the outcome of the first loop
Substitute(s, matches, ev) ==
    IF ev.err # NoErr THEN [result |-> <<>>, skip |-> FALSE, err |-> ev.err]
    ELSE [result |-> ReplaceFrom(s, matches, 1, 1, ev.values), skip |-> ev.skip,
          err |-> NoErr]

\* evaluateExpressionsWithSkip on a non-empty text with its matches
EvaluateMatches(s, matches, c, dt) ==
    Substitute(s, matches, EvalMatches(s, matches, 1, FALSE, <<>>, c, dt))

\* evaluateExpressionsWithSkip finds and evaluates all ((expression)) patterns
evaluateExpressionsWithSkip(s, c, dt) ==
    IF s = <<>> THEN [result |-> s, skip |-> FALSE, err |-> NoErr]
    ELSE EvaluateMatches(s, FindAllStringSubmatch(s), c, dt)

(***************************************************************************)
(* The date-key resolver.                                                  *)
(***************************************************************************)
\* weekdayStringToWeekday: pairs <<name, weekday>>
weekdayStringToWeekday ==
    << <<<<"s", "u", "n", "d", "a", "y">>, 0>>,
       <<<<"s", "u", "n">>, 0>>,
       <<<<"m", "o", "n", "d", "a", "y">>, 1>>,
       <<<<"m", "o", "n">>, 1>>,
       <<<<"t", "u", "e", "s", "d", "a", "y">>, 2>>,
       <<<<"t", "u", "e">>, 2>>,
       <<<<"w", "e", "d", "n", "e", "s", "d", "a", "y">>, 3>>,
       <<<<"w", "e", "d">>, 3>>,
       <<<<"t", "h", "u", "r", "s", "d", "a", "y">>, 4>>,
       <<<<"t", "h", "u">>, 4>>,
       <<<<"f", "r", "i", "d", "a", "y">>, 5>>,
       <<<<"f", "r", "i">>, 5>>,
       <<<<"s", "a", "t", "u", "r", "d", "a", "y">>, 6>>,
       <<<<"s", "a", "t">>, 6>> >>

\* ParseWeekday: a full or three-letter weekday name, case-insensitive
ParseWeekday(s) ==
    LET name == ToLower(TrimSpace(s)) IN
    IF \E i \in 1..Len(weekdayStringToWeekday) : weekdayStringToWeekday[i][1] = name
    THEN [err |-> NoErr,
          weekday |-> weekdayStringToWeekday[
              CHOOSE i \in 1..Len(weekdayStringToWeekday) :
                  weekdayStringToWeekday[i][1] = name][2]]
    ELSE [err |-> "invalid weekday", weekday |-> 0]

\* a faulty ordinalMap: a fifth occurrence is accepted
ordinalMapWithFifth ==
    << <<<<"1", "s", "t">>, 1>>,
       <<<<"2", "n", "d">>, 2>>,
       <<<<"3", "r", "d">>, 3>>,
       <<<<"4", "t", "h">>, 4>>,
       <<<<"5", "t", "h">>, 5>>,
       <<<<"f", "i", "r", "s", "t">>, 1>>,
       <<<<"s", "e", "c", "o", "n", "d">>, 2>>,
       <<<<"t", "h", "i", "r", "d">>, 3>>,
       <<<<"f", "o", "u", "r", "t", "h">>, 4>> >>

\* ordinalMap of parseOrdinalWeekday: pairs <<ordinal string, ordinal>>
ordinalMap ==
    << <<<<"1", "s", "t">>, 1>>,
       <<<<"2", "n", "d">>, 2>>,
       <<<<"3", "r", "d">>, 3>>,
       <<<<"4", "t", "h">>, 4>>,
       <<<<"f", "i", "r", "s", "t">>, 1>>,
       <<<<"s", "e", "c", "o", "n", "d">>, 2>>,
       <<<<"t", "h", "i", "r", "d">>, 3>>,
       <<<<"f", "o", "u", "r", "t", "h">>, 4>> >>

W_last == <<"l", "a", "s", "t", " ">>

\* the result of parseOrdinalWeekday for an ordinal and its parsed weekday
OrdinalWeekday(ordinal, w) ==
    IF w.err # NoErr THEN [err |-> w.err, ordinal |-> 0, weekday |-> 0]
    ELSE [err |-> NoErr, ordinal |-> ordinal, weekday |-> w.weekday]

\* the loop of parseOrdinalWeekday over ordinalMap; hits are the entries
\* whose ordinal string followed by a space is a prefix of s
OrdinalPrefix(s, hits) ==
    IF hits # {}
    THEN OrdinalWeekday(ordinalMap[CHOOSE j \in hits : TRUE][2],
             ParseWeekday(From(s, Len(ordinalMap[CHOOSE j \in hits : TRUE][1]) + 1)))
    ELSE [err |-> "invalid ordinal/weekday format", ordinal |-> 0, weekday |-> 0]

\* parseOrdinalWeekday on the trimmed, lower-cased string
parseOrdinalLower(s) ==
    IF HasPrefix(s, W_last) THEN OrdinalWeekday(-1, ParseWeekday(From(s, Len(W_last))))
    ELSE OrdinalPrefix(s, {i \in 1..Len(ordinalMap) :
                              HasPrefix(s, Append(ordinalMap[i][1], " "))})

\* parseOrdinalWeekday parses strings like "3rd sunday", "last monday"
parseOrdinalWeekday(str) == parseOrdinalLower(ToLower(TrimSpace(str)))

DayOk(d) == [err |-> NoErr, day |-> d]
DayErr(e) == [err |-> e, day |-> 0]

\* the "last" branch once the days to step back are known
lastOccurrence(lastDay, daysBack) ==
    IF lastDay.d - daysBack < 1 THEN DayErr("no occurrence")
    ELSE DayOk(lastDay.d - daysBack)

\* a faulty lastOccurrenceOf: the days are counted forward to the weekday
lastOccurrenceForward(lastDay, weekday) ==
    lastOccurrence(lastDay, (weekday - Weekday(lastDay) + 7) % 7)

\* the "last" branch of calculateOrdinalWeekdayDate
lastOccurrenceOf(lastDay, weekday) ==
    lastOccurrence(lastDay, (Weekday(lastDay) - weekday + 7) % 7)

\* the checks of calculateOrdinalWeekdayDate on the computed day
verifyTargetDay(c, month, weekday, targetDay, testDate) ==
    IF targetDay > 31 THEN DayErr("does not exist")
    ELSE IF Weekday(testDate) # weekday THEN DayErr("not the weekday")
    ELSE IF testDate.m # month THEN DayErr("does not exist")
    ELSE DayOk(targetDay)

\* the day of the nth occurrence: 1 + daysUntilFirst + (ordinal-1)*7
nthOccurrence(c, month, ordinal, weekday, targetDay) ==
    verifyTargetDay(c, month, weekday, targetDay, TimeDate(c.Year, month, targetDay))

\* a faulty ordinalFromFirst: the nth occurrence is taken a week late
ordinalFromFirstWeekLate(c, month, ordinal, weekday, firstDay) ==
    IF ordinal = -1 THEN lastOccurrenceOf(AddDate(firstDay, 0, 1, -1), weekday)
    ELSE nthOccurrence(c, month, ordinal, weekday,
                       1 + ((weekday - Weekday(firstDay) + 7) % 7) + ordinal * 7)

\* calculateOrdinalWeekdayDate for the first day of the month
ordinalFromFirst(c, month, ordinal, weekday, firstDay) ==
    IF ordinal = -1 THEN lastOccurrenceOf(AddDate(firstDay, 0, 1, -1), weekday)
    ELSE nthOccurrence(c, month, ordinal, weekday,
                       1 + ((weekday - Weekday(firstDay) + 7) % 7) + (ordinal - 1) * 7)

\* calculateOrdinalWeekdayDate: the day of month of an ordinal weekday;
\* ordinal is 1..4, or -1 for "last"
calculateOrdinalWeekdayDate(c, month, ordinal, weekday) ==
    ordinalFromFirst(c, month, ordinal, weekday, TimeDate(c.Year, month, 1))

\* position of the last "/" of s, 0 when there is none
RECURSIVE LastSlash(_, _)
LastSlash(s, i) ==
    IF i = 0 THEN 0 ELSE IF s[i] = "/" THEN i ELSE LastSlash(s, i - 1)

NoKey == [month |-> 0, day |-> 0]
KeyOk(month, day) == [err |-> NoErr, key |-> [month |-> month, day |-> day]]
KeyErr(e) == [err |-> e, key |-> NoKey]

\* the end of parseRelativeDate: the key of the computed day
relativeKey(month, day) ==
    IF day.err # NoErr THEN KeyErr("failed to calculate date") ELSE KeyOk(month, day.day)

\* parseRelativeDate once ordinal and weekday are parsed
relativeOrdinal(c, month, ow) ==
    IF ow.err # NoErr THEN KeyErr("invalid ordinal/weekday")
    ELSE relativeKey(month, calculateOrdinalWeekdayDate(c, month, ow.ordinal, ow.weekday))

\* a faulty relativeMatched: the range of the month is not checked
relativeMatchedAnyMonth(c, ordinalWeekday, month) ==
    relativeOrdinal(c, month, parseOrdinalWeekday(ordinalWeekday))

\* parseRelativeDate on the two submatches
relativeMatched(c, ordinalWeekday, month) ==
    IF month < 1 \/ month > 12 THEN KeyErr("month out of range")
    ELSE relativeOrdinal(c, month, parseOrdinalWeekday(ordinalWeekday))

\* the pattern ^\(\((.+)\)\)/(\d+)$ with p the position of the last "/"
relativePattern(s, p) ==
    /\ p >= 6
    /\ AllDigits(From(s, p))
    /\ SubSeq(s, 1, 2) = <<"(", "(">>
    /\ SubSeq(s, p - 2, p - 1) = <<")", ")">>

\* parseRelativeDate with p the position of the last "/"
relativeAt(s, p, c) ==
    IF ~relativePattern(s, p) THEN KeyErr("not a relative date pattern")
    ELSE relativeMatched(c, TrimSpace(SubSeq(s, 3, p - 3)), Atoi(From(s, p)).val)

\* parseRelativeDate parses a relative date pattern like "((3rd sunday))/10"
parseRelativeDate(s, c) == relativeAt(s, LastSlash(s, Len(s)), c)

\* getnum of time.Parse: one or two leading digits (exactly two when fixed)
getnum(s, fixed) ==
    IF Len(s) = 0 \/ ~IsDigit(s[1]) THEN [ok |-> FALSE, val |-> 0, rest |-> s]
    ELSE IF Len(s) = 1 \/ ~IsDigit(s[2])
    THEN IF fixed THEN [ok |-> FALSE, val |-> 0, rest |-> s]
         ELSE [ok |-> TRUE, val |-> DigitVal(s[1]), rest |-> Tail(s)]
    ELSE [ok |-> TRUE, val |-> DigitVal(s[1]) * 10 + DigitVal(s[2]), rest |-> From(s, 2)]

ParseErr(e) == [err |-> e, month |-> 0, day |-> 0]

\* the validation that ends time.Parse; the year of the value is 0
timeParseEnd(value, mo, dy) ==
    IF value # <<>> THEN ParseErr("extra text")
    ELSE IF mo <= 0 \/ mo > 12 THEN ParseErr("month out of range")
    ELSE IF dy < 1 \/ dy > DaysIn(mo, 0) THEN ParseErr("day out of range")
    ELSE [err |-> NoErr, month |-> mo, day |-> dy]

RECURSIVE timeParseFrom(_, _, _, _)

\* one layout element: std is "1" (month), "2" (day) or a literal character,
\* n the number read from the value
timeParseChunk(std, rest, value, month, day, n) ==
    IF std = "1"
    THEN IF ~n.ok THEN ParseErr("cannot parse") ELSE timeParseFrom(rest, n.rest, n.val, day)
    ELSE IF std = "2"
    THEN IF ~n.ok THEN ParseErr("cannot parse") ELSE timeParseFrom(rest, n.rest, month, n.val)
    ELSE IF value = <<>> \/ value[1] # std THEN ParseErr("cannot parse")
    ELSE timeParseFrom(rest, Tail(value), month, day)

\* the layout element at the head of the layout, zero-padded ("01", "02") or not
timeParseStd(layout, value, month, day, zero) ==
    timeParseChunk(IF zero THEN layout[2] ELSE layout[1],
                   IF zero THEN From(layout, 2) ELSE Tail(layout),
                   value, month, day, getnum(value, zero))

\* time.Parse for layouts made of "1" (month), "2" (day), "01", "02" and
\* literal characters; month and day are -1 until the layout sets them
timeParseFrom(layout, value, month, day) ==
    IF layout = <<>>
    THEN timeParseEnd(value, IF month < 0 THEN 1 ELSE month, IF day < 0 THEN 1 ELSE day)
    ELSE timeParseStd(layout, value, month, day,
                      Len(layout) >= 2 /\ layout[1] = "0" /\ layout[2] \in {"1", "2"})

\* time.Parse(layout, s)
timeParse(layout, s) == timeParseFrom(layout, s, -1, -1)

\* specialDaysKeyFromTime keeps the month and the day of a date
specialDaysKeyFromTime(t) == [month |-> t.m, day |-> t.d]

\* a faulty fixedKey: the key keeps the day as month and the month as day
fixedKeyDayMonth(t) ==
    IF t.err # NoErr THEN KeyErr("can't parse")
    ELSE [err |-> NoErr,
          key |-> specialDaysKeyFromTime([y |-> 0, m |-> t.day, d |-> t.month])]

\* the fixed-date branch of specialDaysKeyFromString
fixedKey(t) ==
    IF t.err # NoErr THEN KeyErr("can't parse")
    ELSE [err |-> NoErr,
          key |-> specialDaysKeyFromTime([y |-> 0, m |-> t.month, d |-> t.day])]

\* specialDaysKeyFromString once the relative pattern was tried
keyFromRelative(layout, s, rel) ==
    IF rel.err = NoErr THEN rel ELSE fixedKey(timeParse(layout, s))

\* specialDaysKeyFromString: the relative pattern first, then the fixed date
specialDaysKeyFromString(layout, s, c) ==
    keyFromRelative(layout, s, parseRelativeDate(s, c))

(***************************************************************************)
(* LoadSpecialDaysFromFile.                                                *)
(***************************************************************************)
\* a load error: the stage that failed ("decode", "when", "text", "icon",
\* "font"), the record's when and the wrapped cause
LoadErr(stage, when, cause) == [stage |-> stage, when |-> when, cause |-> cause]

LoadNoErr == LoadErr("nil", <<>>, "nil")

\* SpecialDays values: the nil map and a map with entries m
NilDays == [nil |-> TRUE, m |-> <<>>]
MapDays(m) == [nil |-> FALSE, m |-> m]

NoSpecialDay == [Date |-> [y |-> 0, m |-> 0, d |-> 0], Holiday |-> FALSE, Icon |-> <<>>,
                 Note |-> [Text |-> <<>>, Font |-> <<>>, Size |-> 0]]

\* outcomes of one turn of the load loop
DayFailed(stage, when, cause) ==
    [err |-> LoadErr(stage, when, cause), skip |-> FALSE, specialDay |-> NoSpecialDay]
DaySkipped == [err |-> LoadNoErr, skip |-> TRUE, specialDay |-> NoSpecialDay]
DayStored(specialDay) == [err |-> LoadNoErr, skip |-> FALSE, specialDay |-> specialDay]

\* a faulty newSpecialDay: the holiday flag of the record is not copied
newSpecialDayNoHoliday(day, dt, evText, evIcon, evFont) ==
    [Date |-> dt, Holiday |-> FALSE, Icon |-> evIcon.result,
     Note |-> [Text |-> evText.result, Font |-> evFont.result, Size |-> day.Size]]

\* the SpecialDay built from a record and its evaluated fields
newSpecialDay(day, dt, evText, evIcon, evFont) ==
    [Date |-> dt, Holiday |-> day.Holiday, Icon |-> evIcon.result,
     Note |-> [Text |-> evText.result, Font |-> evFont.result, Size |-> day.Size]]

\* the load loop once the font was evaluated
afterFont(day, dt, evText, evIcon, evFont) ==
    IF evFont.err # NoErr THEN DayFailed("font", day.When, evFont.err)
    ELSE IF evFont.skip THEN DaySkipped
    ELSE DayStored(newSpecialDay(day, dt, evText, evIcon, evFont))

\* a faulty afterIcon: the skip signalled by the icon is dropped
afterIconNoSkip(day, c, dt, evText, evIcon) ==
    IF evIcon.err # NoErr THEN DayFailed("icon", day.When, evIcon.err)
    ELSE afterFont(day, dt, evText, evIcon, evaluateExpressionsWithSkip(day.Font, c, dt))

\* the load loop once the icon was evaluated
afterIcon(day, c, dt, evText, evIcon) ==
    IF evIcon.err # NoErr THEN DayFailed("icon", day.When, evIcon.err)
    ELSE IF evIcon.skip THEN DaySkipped
    ELSE afterFont(day, dt, evText, evIcon, evaluateExpressionsWithSkip(day.Font, c, dt))

\* the load loop once the text was evaluated
afterText(day, c, dt, evText) ==
    IF evText.err # NoErr THEN DayFailed("text", day.When, evText.err)
    ELSE IF evText.skip THEN DaySkipped
    ELSE afterIcon(day, c, dt, evText, evaluateExpressionsWithSkip(day.Icon, c, dt))

\* the load loop from the date of the record on
processDate(day, c, dt) ==
    afterText(day, c, dt, evaluateExpressionsWithSkip(day.Text, c, dt))

\* a faulty processDay: the date keeps the year 0 of the parsed 'when'
processDayYearZero(day, key, c) == processDate(day, c, TimeDate(0, key.month, key.day))

\* the body of the load loop after the key is known: the date of the record
\* in the configured year, then the three evaluations in order
processDay(day, key, c) == processDate(day, c, TimeDate(c.Year, key.month, key.day))

\* a faulty PutDay: an entry already under the key is kept
PutDayKeepFirst(m, key, specialDay) ==
    [k \in (DOMAIN m) \cup {key} |-> IF k \in DOMAIN m THEN m[k] ELSE specialDay]

\* days[key] = specialDay
PutDay(m, key, specialDay) ==
    [k \in (DOMAIN m) \cup {key} |-> IF k = key THEN specialDay ELSE m[k]]

RECURSIVE LoadFrom(_, _, _, _)

\* a faulty loadProcessed: a skipped record removes the entry of its key
loadProcessedSkipRemoves(f, i, m, c, key, r) ==
    IF r.err # LoadNoErr THEN [days |-> NilDays, err |-> r.err]
    ELSE IF r.skip THEN LoadFrom(f, i + 1, [k \in (DOMAIN m) \ {key} |-> m[k]], c)
    ELSE LoadFrom(f, i + 1, PutDay(m, key, r.specialDay), c)

\* the end of a turn of the load loop: r is the outcome for record i
loadProcessed(f, i, m, c, key, r) ==
    IF r.err # LoadNoErr THEN [days |-> NilDays, err |-> r.err]
    ELSE IF r.skip THEN LoadFrom(f, i + 1, m, c)
    ELSE LoadFrom(f, i + 1, PutDay(m, key, r.specialDay), c)

\* a faulty loadKeyed: the records resolved so far are returned with the error
loadKeyedPartial(f, i, m, c, k) ==
    IF k.err # NoErr
    THEN [days |-> MapDays(m), err |-> LoadErr("when", f.Day[i].When, k.err)]
    ELSE loadProcessed(f, i, m, c, k.key, processDay(f.Day[i], k.key, c))

\* a turn of the load loop once the key of record i was resolved
loadKeyed(f, i, m, c, k) ==
    IF k.err # NoErr
    THEN [days |-> NilDays, err |-> LoadErr("when", f.Day[i].When, k.err)]
    ELSE loadProcessed(f, i, m, c, k.key, processDay(f.Day[i], k.key, c))

\* the loop of LoadSpecialDaysFromFile over records i.. of the file
LoadFrom(f, i, m, c) ==
    IF i > Len(f.Day) THEN [days |-> MapDays(m), err |-> LoadNoErr]
    ELSE loadKeyed(f, i, m, c, specialDaysKeyFromString(f.DateFormat, f.Day[i].When, c))

\* a faulty LoadSpecialDaysFromFile: the store of the load before is filled on
LoadSpecialDaysFromFileKept(f, c) ==
    IF f.name = "" THEN [days |-> NilDays, err |-> LoadNoErr]
    ELSE IF ~f.decodes THEN [days |-> NilDays, err |-> LoadErr("decode", <<>>, "toml")]
    ELSE LoadFrom(f, 1, days.m, c)

\* LoadSpecialDaysFromFile(filename, cfg); f is the file as toml decodes it
LoadSpecialDaysFromFile(f, c) ==
    IF f.name = "" THEN [days |-> NilDays, err |-> LoadNoErr]
    ELSE IF ~f.decodes THEN [days |-> NilDays, err |-> LoadErr("decode", <<>>, "toml")]
    ELSE LoadFrom(f, 1, <<>>, c)

(***************************************************************************)
(* NewCalendar and CloneAt.                                                *)
(***************************************************************************)
MaxWeeks == 6
DaysPerWeek == 7

NoSpecial == [ok |-> FALSE, v |-> NoSpecialDay]

\* a faulty At: a store without entries gives the zero SpecialDay
AtZeroValue(ds, dt) ==
    IF Cardinality(DOMAIN ds.m) = 0 THEN [ok |-> TRUE, v |-> NoSpecialDay]
    ELSE IF specialDaysKeyFromTime(dt) \in DOMAIN ds.m
    THEN [ok |-> TRUE, v |-> ds.m[specialDaysKeyFromTime(dt)]]
    ELSE NoSpecial

\* SpecialDays.At(date): the entry under the date's (month, day), if any
At(ds, dt) ==
    IF Cardinality(DOMAIN ds.m) = 0 THEN NoSpecial
    ELSE IF specialDaysKeyFromTime(dt) \in DOMAIN ds.m
    THEN [ok |-> TRUE, v |-> ds.m[specialDaysKeyFromTime(dt)]]
    ELSE NoSpecial

ZeroCalendar == [Year |-> 0, Month |-> 0, Weeks |-> <<>>, WeekStart |-> 0,
                 SpecialDays |-> NilDays]

\* a faulty startOffset: the subtraction the wrong way round
startOffsetReversed(firstWeekday, weekStart) == (weekStart - firstWeekday + 7) % 7

\* the offset of day 1 in its week: (firstWeekday - weekStart + 7) % 7
startOffset(firstWeekday, weekStart) == (firstWeekday - weekStart + 7) % 7

\* the first rendered day: day 1 stepped back by the offset
startDateOf(firstDayOfMonth, weekStart) ==
    AddDate(firstDayOfMonth, 0, 0, 0 - startOffset(Weekday(firstDayOfMonth), weekStart))

\* a faulty newDay: the store is looked up for the days of the month only
newDayCurrentOnly(currentDate, year, month, specialDays) ==
    [Date |-> currentDate,
     DayNumber |-> currentDate.d,
     IsCurrentMonth |-> currentDate.m = month /\ currentDate.y = year,
     special |-> IF currentDate.m = month /\ currentDate.y = year
                 THEN At(specialDays, currentDate) ELSE NoSpecial]

\* the Day built for currentDate
newDay(currentDate, year, month, specialDays) ==
    [Date |-> currentDate,
     DayNumber |-> currentDate.d,
     IsCurrentMonth |-> currentDate.m = month /\ currentDate.y = year,
     special |-> At(specialDays, currentDate)]

RECURSIVE weekFrom(_, _, _, _, _, _, _)

\* the end of a turn of the inner loop: wd is the week so far, next the
\* advanced currentDate
dayBuilt(day, next, wd, lastDayOfMonth, year, month, specialDays) ==
    IF After(next, lastDayOfMonth) /\ day = 6
    THEN [weekDays |-> wd, currentDate |-> next]
    ELSE weekFrom(day + 1, next, wd, lastDayOfMonth, year, month, specialDays)

\* a faulty weekFrom: the day of currentDate is stepped without carry into
\* the next month
weekFromNoCarry(day, currentDate, weekDays, lastDayOfMonth, year, month, specialDays) ==
    IF day >= DaysPerWeek THEN [weekDays |-> weekDays, currentDate |-> currentDate]
    ELSE dayBuilt(day, [currentDate EXCEPT !.d = @ + 1],
                  Append(weekDays, newDay(currentDate, year, month, specialDays)),
                  lastDayOfMonth, year, month, specialDays)

\* the inner loop of NewCalendar from column day on
weekFrom(day, currentDate, weekDays, lastDayOfMonth, year, month, specialDays) ==
    IF day >= DaysPerWeek THEN [weekDays |-> weekDays, currentDate |-> currentDate]
    ELSE dayBuilt(day, AddDate(currentDate, 0, 0, 1),
                  Append(weekDays, newDay(currentDate, year, month, specialDays)),
                  lastDayOfMonth, year, month, specialDays)

\* a faulty monthCovered: true once currentDate has reached the last day
monthCoveredEarly(currentDate, lastDayOfMonth) == ~After(lastDayOfMonth, currentDate)

\* the test that ends the outer loop of NewCalendar after a week
monthCovered(currentDate, lastDayOfMonth) == After(currentDate, lastDayOfMonth)

RECURSIVE weeksFrom(_, _, _, _, _, _, _)

\* a faulty weekBuilt: the outer loop without its break
weekBuiltNoBreak(n, w, weeks, lastDayOfMonth, year, month, specialDays) ==
    weeksFrom(n + 1, w.currentDate, Append(weeks, w.weekDays),
              lastDayOfMonth, year, month, specialDays)

\* the end of a turn of the outer loop: w is the week just built
weekBuilt(n, w, weeks, lastDayOfMonth, year, month, specialDays) ==
    IF monthCovered(w.currentDate, lastDayOfMonth) THEN Append(weeks, w.weekDays)
    ELSE weeksFrom(n + 1, w.currentDate, Append(weeks, w.weekDays),
                   lastDayOfMonth, year, month, specialDays)

\* the outer loop of NewCalendar from week n on
weeksFrom(n, currentDate, weeks, lastDayOfMonth, year, month, specialDays) ==
    IF n >= MaxWeeks THEN weeks
    ELSE weekBuilt(n, weekFrom(0, currentDate, <<>>, lastDayOfMonth, year, month,
                               specialDays),
                   weeks, lastDayOfMonth, year, month, specialDays)

\* a faulty calendarOf: the calendar does not keep the store it was built with
calendarOfNoStore(year, month, weekStart, specialDays, firstDayOfMonth, lastDayOfMonth) ==
    [Year |-> year, Month |-> month,
     Weeks |-> weeksFrom(0, startDateOf(firstDayOfMonth, weekStart), <<>>,
                         lastDayOfMonth, year, month, specialDays),
     WeekStart |-> weekStart, SpecialDays |-> MapDays(<<>>)]

\* NewCalendar for a valid month, from the first and last day of the month
calendarOf(year, month, weekStart, specialDays, firstDayOfMonth, lastDayOfMonth) ==
    [Year |-> year, Month |-> month,
     Weeks |-> weeksFrom(0, startDateOf(firstDayOfMonth, weekStart), <<>>,
                         lastDayOfMonth, year, month, specialDays),
     WeekStart |-> weekStart, SpecialDays |-> specialDays]

\* a faulty NewCalendar: the whole-year month 0 is let through
NewCalendarFromZero(year, month, weekStart, specialDays) ==
    IF month < 0 \/ month > 12
    THEN [cal |-> ZeroCalendar, err |-> "invalid month"]
    ELSE [cal |-> calendarOf(year, month, weekStart, specialDays,
                             TimeDate(year, month, 1),
                             AddDate(TimeDate(year, month, 1), 0, 1, -1)),
          err |-> NoErr]

\* NewCalendar creates a new calendar for the given month and year
NewCalendar(year, month, weekStart, specialDays) ==
    IF month < 1 \/ month > 12
    THEN [cal |-> ZeroCalendar, err |-> "invalid month"]
    ELSE [cal |-> calendarOf(year, month, weekStart, specialDays,
                             TimeDate(year, month, 1),
                             AddDate(TimeDate(year, month, 1), 0, 1, -1)),
          err |-> NoErr]

\* cal.CloneAt(month)
CloneAt(c, month) == NewCalendar(c.Year, month, c.WeekStart, c.SpecialDays)

(***************************************************************************)
(* The weekday headers: Language.Read, WeekdayAbbreviations and            *)
(* rotateWeekdays.                                                         *)
(***************************************************************************)
Spanish == "es"
English == "en"
Languages == {Spanish, English}

\* names of WeekdayAbbreviations, Sunday first
WeekdayKeys == <<"Sun", "Mon", "Tue", "Wed", "Thu", "Fri", "Sat">>

\* i18nStrings[Spanish] for the keys of WeekdayAbbreviations;
\* i18nStrings[English] gives every key as it is
SpanishAbbreviations == <<"D", "L", "M", "M", "J", "V", "S">>

\* lang.Read(key): the string of the language, the key when the language or
\* the key is unknown
Read(lang, key) ==
    IF lang = Spanish /\ \E i \in 1..Len(WeekdayKeys) : WeekdayKeys[i] = key
    THEN SpanishAbbreviations[CHOOSE i \in 1..Len(WeekdayKeys) : WeekdayKeys[i] = key]
    ELSE key

\* a faulty rotateFrom: the names are rotated the other way
rotateBack(names, startDay) ==
    IF startDay = 0 THEN names
    ELSE SubSeq(names, Len(names) - startDay + 1, Len(names))
             \o SubSeq(names, 1, Len(names) - startDay)

\* rotateWeekdays for a start day in 0..6:
\* append(names[startDay:], names[:startDay]...)
rotateFrom(names, startDay) ==
    IF startDay = 0 THEN names
    ELSE SubSeq(names, startDay + 1, Len(names)) \o SubSeq(names, 1, startDay)

\* rotateWeekdays(names, startDay); a start day outside 0..6 counts as 0
rotateWeekdays(names, startDay) ==
    rotateFrom(names, IF startDay < 0 \/ startDay > 6 THEN 0 ELSE startDay)

\* lang.WeekdayAbbreviations(weekStart)
WeekdayAbbreviations(lang, weekStart) ==
    rotateWeekdays([i \in 1..Len(WeekdayKeys) |-> Read(lang, WeekdayKeys[i])], weekStart)

(***************************************************************************)
(* Inputs: the strings of the special-days files of the runs.              *)
(***************************************************************************)
Wh_18_3 == <<"1", "8", "/", "3">>
Wh_29_2 == <<"2", "9", "/", "2">>
Wh_3rdMon3 == <<"(", "(", "3", "r", "d", " ", "m", "o", "n", "d", "a", "y", ")", ")", "/", "3">>
Wh_31_4 == <<"3", "1", "/", "4">>
Wh_1_1 == <<"1", "/", "1">>
Layout_2_1 == <<"2", "/", "1">>
P_text == <<"h", "i">>
P_icon == <<"i", ".", "s", "v", "g">>
P_font == <<"m", "o", "n", "o">>
A_text == <<"(", "(", "y", "e", "a", "r", " ", "-", " ", "2", "0", "2", "4", ")", ")", "t", "h">>
A_icon == <<"a", "(", "(", "y", "e", "a", "r", " ", "-", " ", "2", "0", "2", "4", ")", ")", ".", "s", "v", "g">>
B_text == <<"(", "(", "f", "o", "o", ")", ")">>
B_icon == <<"(", "(", "y", "e", "a", "r", " ", "+", ")", ")">>
B_font == <<"(", "(", "c", "f", "g", ".", "d", "a", "y", ")", ")">>
D_text == <<"(", "(", "y", "e", "a", "r", ")", ")", "-", "(", "(", "m", "o", "n", "t", "h", ")", ")", "-", "(", "(", "d", "a", "y", ")", ")">>
D_icon == <<"i", "(", "(", "y", "e", "a", "r", ")", ")", "-", "(", "(", "m", "o", "n", "t", "h", ")", ")", "-", "(", "(", "d", "a", "y", ")", ")">>
D_font == <<"f", "(", "(", "y", "e", "a", "r", ")", ")", "-", "(", "(", "m", "o", "n", "t", "h", ")", ")", "-", "(", "(", "d", "a", "y", ")", ")">>
C_font == <<"(", "(", "c", "f", "g", ".", "y", "e", "a", "r", ")", ")", "/", "(", "(", "C", "F", "G", ".", "M", "o", "n", "t", "h", ")", ")">>

Record(when, holiday, icon, txt, font, size) ==
    [When |-> when, Holiday |-> holiday, Icon |-> icon, Text |-> txt, Font |-> font,
     Size |-> size]

\* fixed date, expression in one field (positive, zero or negative by year)
R_anniv == Record(Wh_18_3, TRUE, P_icon, A_text, <<>>, 10)
R_skipIcon == Record(Wh_18_3, FALSE, A_icon, P_text, P_font, 10)
\* a skipping field followed or preceded by a malformed one
R_skipTextBadIcon == Record(Wh_18_3, FALSE, B_icon, A_text, P_font, 10)
R_skipIconBadFont == Record(Wh_18_3, FALSE, A_icon, P_text, B_font, 10)
R_badTextSkipIcon == Record(Wh_18_3, FALSE, A_icon, B_text, P_font, 10)
\* the date identifiers in every field, on 29 February, with a size of 0
R_leap == Record(Wh_29_2, TRUE, D_icon, D_text, D_font, 0)
\* a relative date (18 March in 2024) with the cfg identifiers
R_relative == Record(Wh_3rdMon3, FALSE, P_icon, D_text, C_font, 12)
R_badWhen == Record(Wh_31_4, FALSE, P_icon, P_text, P_font, 10)
R_plain == Record(Wh_18_3, FALSE, P_icon, P_text, P_font, 12)
\* the first day of the year, a filler day of the grid of December
R_newYear == Record(Wh_1_1, TRUE, P_icon, P_text, P_font, 12)
\* the configured month in the text and in the icon
M_text == <<"m", "(", "(", "c", "f", "g", ".", "m", "o", "n", "t", "h", ")", ")">>
M_icon == <<"(", "(", "C", "f", "g", ".", "M", "o", "n", "t", "h", ")", ")", ".", "s", "v", "g">>
R_monthText == Record(Wh_18_3, TRUE, P_icon, M_text, P_font, 10)
R_monthIcon == Record(Wh_1_1, FALSE, M_icon, P_text, P_font, 12)

Pool == {R_plain, R_anniv, R_skipIcon, R_skipTextBadIcon, R_skipIconBadFont,
         R_badTextSkipIcon, R_leap, R_relative, R_badWhen}

SeqsUpTo(S, n) == UNION {[1..k -> S] : k \in 0..n}

TomlFile(recs) == [name |-> "days.toml", decodes |-> TRUE, DateFormat |-> Layout_2_1,
                   Day |-> recs]

NoFile == [name |-> "", decodes |-> TRUE, DateFormat |-> <<>>, Day |-> <<>>]
BrokenFile == [name |-> "days.toml", decodes |-> FALSE, DateFormat |-> <<>>, Day |-> <<>>]

\* the files of the load runs
Files == {NoFile, BrokenFile} \cup {TomlFile(recs) : recs \in SeqsUpTo(Pool, MaxRecords)}

\* the files of the grid runs
GridFiles == {NoFile, TomlFile(<<>>), TomlFile(<<R_plain, R_leap, R_newYear>>),
              TomlFile(<<R_leap, R_relative, R_anniv>>)}

\* configured months: the whole-year sentinel and the records' month
CfgMonths == {0, 3}

Cfgs == [Year : Years, Month : CfgMonths]

Months == 0..13
WeekStarts == 0..6

\* configurations of the grid runs
GridCfgs == [Year : Years, Month : {3}]

NoClone == [cal |-> ZeroCalendar, err |-> NoErr]
NoDate == [y |-> 0, m |-> 0, d |-> 0]
NoOut == [result |-> <<>>, skip |-> FALSE, err |-> NoErr]

(***************************************************************************)
(* The run: load the special days, build a calendar, clone it per month.   *)
(***************************************************************************)
TypeOK ==
    /\ pc \in {"start", "loaded", "failed", "built", "invalid", "eval", "evaluated",
              "when", "rendered"}

Init ==
    /\ pc = "start"
    /\ cfg \in GridCfgs
    /\ file \in GridFiles
    /\ days = NilDays
    /\ err = LoadNoErr
    /\ cal = ZeroCalendar
    /\ calErr = NoErr
    /\ clone = NoClone
    /\ text = <<>>
    /\ date = NoDate
    /\ out = NoOut

\* days, err := LoadSpecialDaysFromFile(filename, cfg)
Load ==
    /\ pc = "start"
    /\ LET r == LoadSpecialDaysFromFile(file, cfg) IN
           /\ days' = r.days
           /\ err' = r.err
           /\ pc' = IF r.err = LoadNoErr THEN "loaded" ELSE "failed"
    /\ UNCHANGED <<cfg, file, cal, calErr, clone, text, date, out>>

\* cal, err := NewCalendar(year, month, weekStart, days)
BuildCalendar(year, month, weekStart) ==
    /\ pc = "loaded"
    /\ LET r == NewCalendar(year, month, weekStart, days) IN
           /\ cal' = r.cal
           /\ calErr' = r.err
           /\ pc' = IF r.err = NoErr THEN "built" ELSE "invalid"
    /\ UNCHANGED <<cfg, file, days, err, clone, text, date, out>>

\* one turn of the loop of RenderYear, which runs on the calendar of month 1:
\* cal, err := cal.CloneAt(month), the clone being local to the turn
Clone(month) ==
    /\ pc = "built"
    /\ cal.Month = 1
    /\ LET r == CloneAt(cal, month) IN
           /\ clone' = r
           /\ pc' = IF r.err = NoErr THEN "built" ELSE "invalid"
    /\ UNCHANGED <<cfg, file, days, err, cal, calErr, text, date, out>>

\* the weekday headers of RenderMonth:
\* weekdayNames := config.Language.WeekdayAbbreviations(cal.WeekStart)
RenderHeader(lang) ==
    /\ pc = "built"
    /\ text' = WeekdayAbbreviations(lang, cal.WeekStart)
    /\ pc' = "rendered"
    /\ UNCHANGED <<cfg, file, days, err, cal, calErr, clone, date, out>>

Next ==
    \/ Load
    \/ \E month \in Months, weekStart \in WeekStarts :
           BuildCalendar(cfg.Year, month, weekStart)
    \/ \E month \in Months : Clone(month)
    \/ \E lang \in Languages : RenderHeader(lang)

Spec == Init /\ [][Next]_vars

(***************************************************************************)
(* The load runs: one load per run, over every file of Files.              *)
(***************************************************************************)
InitLoad ==
    /\ pc = "start"
    /\ cfg \in Cfgs
    /\ file \in Files
    /\ days = NilDays
    /\ err = LoadNoErr
    /\ cal = ZeroCalendar
    /\ calErr = NoErr
    /\ clone = NoClone
    /\ text = <<>>
    /\ date = NoDate
    /\ out = NoOut

NextLoad == Load

SpecLoad == InitLoad /\ [][NextLoad]_vars

(***************************************************************************)
(* The evaluator runs: evaluateExpressionsWithSkip on texts made of        *)
(* literals and ((...)) markers.                                           *)
(***************************************************************************)
\* operands: the characters, the kind and (for literals) the value
Ident(chars, kind) == [s |-> chars, kind |-> kind, n |-> 0]
Lit(chars, n) == [s |-> chars, kind |-> "lit", n |-> n]
Plus(chars, n) == [s |-> chars, kind |-> "plus", n |-> n]
Bad(chars) == [s |-> chars, kind |-> "bad", n |-> 0]

O_year == Ident(W_year, "year")
O_Year == Ident(<<"Y", "e", "a", "r">>, "year")
O_month == Ident(W_month, "month")
O_day == Ident(<<"D", "A", "Y">>, "day")
O_cfgYear == Ident(<<"c", "f", "g", ".", "y", "e", "a", "r">>, "cfg.year")
O_CfgYear == Ident(<<"C", "F", "G", ".", "Y", "e", "a", "r">>, "cfg.year")
O_cfgMonth == Ident(<<"c", "f", "g", ".", "m", "o", "n", "t", "h">>, "cfg.month")
O_0 == Lit(<<"0">>, 0)
O_1 == Lit(<<"1">>, 1)
O_10 == Lit(<<"1", "0">>, 10)
O_2000 == Lit(<<"2", "0", "0", "0">>, 2000)
O_2011 == Lit(<<"2", "0", "1", "1">>, 2011)
O_2024 == Lit(<<"2", "0", "2", "4">>, 2024)
O_m5 == Lit(<<"-", "5">>, -5)
O_p5 == Plus(<<"+", "5">>, 5)
O_foo == Bad(<<"f", "o", "o">>)
O_cfgDay == Bad(<<"c", "f", "g", ".", "d", "a", "y">>)
O_none == Bad(<<>>)
O_blank == Bad(<<" ">>)

\* expressions: a first operand, then <<operator, operand>> pairs; sp tells
\* whether the operators are written with a space on each side
Expr(first, rest, sp) == [first |-> first, rest |-> rest, sp |-> sp]

Exprs ==
    { Expr(O_year, <<>>, TRUE),
      Expr(O_year, <<<<"-", O_2011>>>>, TRUE),
      Expr(O_Year, <<<<"-", O_2011>>>>, FALSE),
      Expr(O_year, <<<<"-", O_2000>>, <<"+", O_10>>>>, TRUE),
      Expr(O_year, <<<<"-", O_2024>>>>, TRUE),
      Expr(O_year, <<<<"+", O_1>>>>, TRUE),
      Expr(O_month, <<<<"+", O_1>>>>, TRUE),
      Expr(O_day, <<<<"-", O_1>>>>, FALSE),
      Expr(O_cfgYear, <<<<"-", O_year>>>>, TRUE),
      Expr(O_CfgYear, <<>>, TRUE),
      Expr(O_cfgMonth, <<>>, TRUE),
      Expr(O_0, <<>>, TRUE),
      Expr(O_m5, <<<<"+", O_year>>>>, TRUE),
      Expr(O_year, <<<<"-", O_m5>>>>, TRUE),
      Expr(O_1, <<<<"-", O_10>>, <<"-", O_m5>>>>, FALSE),
      Expr(O_p5, <<>>, TRUE),
      Expr(O_year, <<<<"+", O_p5>>>>, TRUE),
      Expr(O_foo, <<>>, TRUE),
      Expr(O_year, <<<<"+", O_foo>>>>, TRUE),
      Expr(O_cfgDay, <<>>, TRUE),
      Expr(O_year, <<<<"+", O_none>>>>, TRUE),
      Expr(O_year, <<<<"*", O_1>>>>, TRUE),
      Expr(O_blank, <<>>, FALSE) }

\* literal parts: they hold no marker and open none with their neighbours
Literals == {<<"t", "h", " ">>, <<"(", "a", ")">>, <<"x", "-", "1">>, <<"(", "(", ")", ")">>}

Marker(e) == [marker |-> TRUE, e |-> e, s |-> <<>>]
Literal(s) == [marker |-> FALSE, e |-> Expr(O_0, <<>>, FALSE), s |-> s]

Parts == {Marker(e) : e \in Exprs} \cup {Literal(s) : s \in Literals}

\* the characters of an expression
RECURSIVE RenderRest(_, _, _)
RenderRest(rest, i, sp) ==
    IF i > Len(rest) THEN <<>>
    ELSE (IF sp THEN <<" ", rest[i][1], " ">> ELSE <<rest[i][1]>>)
         \o rest[i][2].s \o RenderRest(rest, i + 1, sp)

RenderExpr(e) == e.first.s \o RenderRest(e.rest, 1, e.sp)

\* the characters of a text
RECURSIVE Render(_)
Render(parts) ==
    IF parts = <<>> THEN <<>>
    ELSE (IF Head(parts).marker
          THEN <<"(", "(">> \o RenderExpr(Head(parts).e) \o <<")", ")">>
          ELSE Head(parts).s) \o Render(Tail(parts))

\* texts of the documentation and of the tests, and three markers in a row
Ex_years == <<Literal(<<"Y", "e", "a", "r", " ">>), Marker(Expr(O_year, <<>>, TRUE)),
              Literal(<<" ", "h", "a", "s", " ">>), Marker(Expr(O_year, <<<<"-", O_2000>>>>, TRUE)),
              Literal(<<" ", "y", "e", "a", "r", "s", " ", "s", "i", "n", "c", "e", " ", "2", "0", "0", "0">>)>>
Ex_middle == <<Marker(Expr(O_year, <<<<"+", O_1>>>>, TRUE)),
               Marker(Expr(O_year, <<<<"-", O_2024>>>>, TRUE)),
               Marker(Expr(O_month, <<<<"+", O_1>>>>, TRUE))>>
Ex_since == <<Marker(Expr(O_year, <<<<"-", O_2011>>>>, TRUE))>>
Ex_sum == <<Marker(Expr(O_year, <<<<"-", O_2000>>, <<"+", O_10>>>>, TRUE))>>

Examples == {Ex_years, Ex_middle, Ex_since, Ex_sum}

\* the evaluation contexts: the Config and the date of the special day
EvalContexts ==
    { <<[Year |-> 2024, Month |-> 0], [y |-> 2024, m |-> 3, d |-> 18]>>,
      <<[Year |-> 2024, Month |-> 3], [y |-> 2010, m |-> 3, d |-> 18]>>,
      <<[Year |-> 2010, Month |-> 7], [y |-> 2024, m |-> 12, d |-> 1]>> }

InitEval ==
    /\ pc = "eval"
    /\ \E ctx \in EvalContexts : cfg = ctx[1] /\ date = ctx[2]
    /\ text \in SeqsUpTo(Parts, MaxParts) \cup Examples
    /\ file = NoFile
    /\ days = NilDays
    /\ err = LoadNoErr
    /\ cal = ZeroCalendar
    /\ calErr = NoErr
    /\ clone = NoClone
    /\ out = NoOut

\* result, skip, err := evaluateExpressionsWithSkip(text, cfg, date)
Evaluate ==
    /\ pc = "eval"
    /\ out' = evaluateExpressionsWithSkip(Render(text), cfg, date)
    /\ pc' = "evaluated"
    /\ UNCHANGED <<cfg, file, days, err, cal, calErr, clone, text, date>>

NextEval == Evaluate

SpecEval == InitEval /\ [][NextEval]_vars

(***************************************************************************)
(* The resolver runs: the key of one 'when' is resolved on its own, then   *)
(* the file that holds one record with that 'when' is loaded.              *)
(***************************************************************************)
\* ordinal strings with the ordinal they stand for, -1 for last; 5th is no
\* ordinal of parseOrdinalWeekday
WhenOrdinals ==
    { <<<<"1", "s", "t">>, 1>>,
      <<<<"2", "n", "d">>, 2>>,
      <<<<"3", "r", "d">>, 3>>,
      <<<<"4", "t", "h">>, 4>>,
      <<<<"f", "i", "r", "s", "t">>, 1>>,
      <<<<"s", "e", "c", "o", "n", "d">>, 2>>,
      <<<<"t", "h", "i", "r", "d">>, 3>>,
      <<<<"f", "o", "u", "r", "t", "h">>, 4>>,
      <<<<"L", "a", "s", "t">>, -1>>,
      <<<<"l", "a", "s", "t">>, -1>>,
      <<<<"5", "t", "h">>, 5>> }

\* weekday strings with the weekday they stand for, -1 for no weekday
WhenWeekdays ==
    { <<<<"s", "u", "n", "d", "a", "y">>, 0>>,
      <<<<"m", "o", "n", "d", "a", "y">>, 1>>,
      <<<<"t", "u", "e", "s", "d", "a", "y">>, 2>>,
      <<<<"w", "e", "d", "n", "e", "s", "d", "a", "y">>, 3>>,
      <<<<"t", "h", "u", "r", "s", "d", "a", "y">>, 4>>,
      <<<<"f", "r", "i", "d", "a", "y">>, 5>>,
      <<<<"s", "a", "t", "u", "r", "d", "a", "y">>, 6>>,
      <<<<"s", "u", "n">>, 0>>,
      <<<<"F", "r", "i">>, 5>>,
      <<<<"f", "u", "n", "d", "a", "y">>, -1>> }

\* a 'when' as the file gives it (s, under the layout of the file) with what
\* it was written from: ordinal n, weekday w and month for a relative date,
\* month and day for a fixed date (month 0: no date under the layout)
When(kind, s, layout, n, w, month, day) ==
    [kind |-> kind, s |-> s, layout |-> layout, n |-> n, w |-> w,
     month |-> month, day |-> day]

\* ((<ordinal> <weekday>))/<month>
RelativeWhen(o, w, month) ==
    When("relative",
         <<"(", "(">> \o o[1] \o <<" ">> \o w[1] \o <<")", ")", "/">> \o Itoa(month),
         Layout_2_1, o[2], w[2], month, 0)

RelativeWhens ==
    {RelativeWhen(o, w, month) : o \in WhenOrdinals, w \in WhenWeekdays, month \in Months}

FixedWhen(s, layout, month, day) == When("fixed", s, layout, 0, 0, month, day)

FixedWhens ==
    { FixedWhen(<<"1", "8", "/", "3">>, <<"2", "/", "1">>, 3, 18),
      FixedWhen(<<"2", "9", "/", "2">>, <<"2", "/", "1">>, 2, 29),
      FixedWhen(<<"1", "/", "1", "2">>, <<"2", "/", "1">>, 12, 1),
      FixedWhen(<<"3", "1", "/", "4">>, <<"2", "/", "1">>, 0, 0),
      FixedWhen(<<"1", "8", "-", "3">>, <<"2", "/", "1">>, 0, 0),
      FixedWhen(<<"3", "/", "1", "8">>, <<"2", "/", "1">>, 0, 0),
      FixedWhen(<<>>, <<"2", "/", "1">>, 0, 0),
      FixedWhen(<<"3", "/", "1", "8">>, <<"1", "/", "2">>, 3, 18),
      FixedWhen(<<"1", "8", "/", "3">>, <<"1", "/", "2">>, 0, 0),
      FixedWhen(<<"1", "8", "/", "0", "3">>, <<"0", "2", "/", "0", "1">>, 3, 18),
      FixedWhen(<<"1", "8", "/", "3">>, <<"0", "2", "/", "0", "1">>, 0, 0),
      FixedWhen(<<"(", "(", "3", "r", "d", " ", "m", "o", "n", "d", "a", "y", ")", ")">>, <<"2", "/", "1">>, 0, 0),
      FixedWhen(<<"(", "(", "3", "r", "d", " ", "m", "o", "n", "d", "a", "y", ")", ")", "/", "x">>, <<"2", "/", "1">>, 0, 0),
      FixedWhen(<<"(", "3", "r", "d", " ", "m", "o", "n", "d", "a", "y", ")", "/", "3">>, <<"2", "/", "1">>, 0, 0) }

Whens == RelativeWhens \cup FixedWhens

\* the file with the layout of a 'when' and one record on that 'when'
WhenFile(w) ==
    [TomlFile(<<Record(w.s, TRUE, P_icon, P_text, P_font, 12)>>)
        EXCEPT !.DateFormat = w.layout]

NoKeyOut == [err |-> NoErr, key |-> NoKey]

InitKey ==
    /\ pc = "when"
    /\ cfg \in Cfgs
    /\ text \in Whens
    /\ file = WhenFile(text)
    /\ days = NilDays
    /\ err = LoadNoErr
    /\ cal = ZeroCalendar
    /\ calErr = NoErr
    /\ clone = NoClone
    /\ date = NoDate
    /\ out = NoKeyOut

\* key, err := specialDaysKeyFromString(layout, day.When, cfg)
ResolveKey ==
    /\ pc = "when"
    /\ out' = specialDaysKeyFromString(file.DateFormat, file.Day[1].When, cfg)
    /\ pc' = "start"
    /\ UNCHANGED <<cfg, file, days, err, cal, calErr, clone, text, date>>

NextKey == ResolveKey \/ Load

SpecKey == InitKey /\ [][NextKey]_vars

(***************************************************************************)
(* The reload runs: the same file is loaded again and again, under the     *)
(* same Config or another one.                                             *)
(***************************************************************************)
ReloadFiles ==
    GridFiles \cup {BrokenFile, TomlFile(<<R_anniv, R_badWhen>>),
                    TomlFile(<<R_skipIcon, R_relative>>),
                    TomlFile(<<R_plain, R_monthText>>),
                    TomlFile(<<R_monthIcon, R_leap>>)}

\* what a run remembers of its loads: the Config and the outcome of the
\* first load, the number of loads after it, and whether one of them was
\* for another year than the first
Loads(c, ds, e, n, other) ==
    [first |-> [cfg |-> c, days |-> ds, err |-> e], loads |-> n, otherYear |-> other]

InitReload ==
    /\ pc = "start"
    /\ cfg \in Cfgs
    /\ file \in ReloadFiles
    /\ days = NilDays
    /\ err = LoadNoErr
    /\ cal = ZeroCalendar
    /\ calErr = NoErr
    /\ clone = NoClone
    /\ text = <<>>
    /\ date = NoDate
    /\ out = Loads(cfg, NilDays, LoadNoErr, 0, FALSE)

\* days, err := LoadSpecialDaysFromFile(filename, c), after an earlier load
LoadAgain(c) ==
    /\ pc \in {"loaded", "failed"}
    /\ out.loads < MaxLoads
    /\ LET r == LoadSpecialDaysFromFile(file, c) IN
           /\ days' = r.days
           /\ err' = r.err
           /\ pc' = IF r.err = LoadNoErr THEN "loaded" ELSE "failed"
    /\ cfg' = c
    /\ out' = IF out.loads = 0
              THEN Loads(cfg, days, err, 1, c.Year # cfg.Year)
              ELSE Loads(out.first.cfg, out.first.days, out.first.err, out.loads + 1,
                         out.otherYear \/ c.Year # out.first.cfg.Year)
    /\ UNCHANGED <<file, cal, calErr, clone, text, date>>

NextReload == Load \/ \E c \in Cfgs : LoadAgain(c)

SpecReload == InitReload /\ [][NextReload]_vars

(***************************************************************************)
(* Properties of the month grid (specification Spec).                      *)
(***************************************************************************)
\* the grids of a state: the calendar NewCalendar returned and the clone
Grids == {c \in {cal, clone.cal} : c.Month # 0}

\* the positions <<week, column>> of a grid, and the Day at a position
Cells(c) == {p \in (1..Len(c.Weeks)) \X (1..7) : p[2] <= Len(c.Weeks[p[1]])}
DayAt(c, p) == c.Weeks[p[1]][p[2]]

MonthDay(c, d) == [y |-> c.Year, m |-> c.Month, d |-> d]

\* C1: for every year, month 1-12 and week start 0-6, every week of the grid
\* NewCalendar returns holds exactly 7 Days (the day count is a multiple of
\* 7) and the weekday of the first Day of the first week is the week start.
C1_WeeksOfSeven ==
    /\ pc = "built" => cal \in Grids /\ cal.Month \in 1..12
    /\ \A c \in Grids :
           /\ Len(c.Weeks) >= 1
           /\ \A w \in 1..Len(c.Weeks) : Len(c.Weeks[w]) = 7
           /\ Cardinality(Cells(c)) % 7 = 0
           /\ Weekday(c.Weeks[1][1].Date) = c.WeekStart

\* a calendar whose week starts on Wednesday and opens with filler days
C1_Witness ==
    /\ pc = "built"
    /\ cal.WeekStart = 3
    /\ ~cal.Weeks[1][1].IsCurrentMonth
    /\ Weekday(cal.Weeks[1][1].Date) = 3

\* C2: the grid fully covers its month: each day 1..L of (year, month)
\* appears exactly once, with IsCurrentMonth true, and every other Day of
\* the grid (a filler of the previous or next month) has it false.
C2_GridCoversMonth ==
    \A c \in Grids :
        /\ \A d \in 1..DaysIn(c.Month, c.Year) :
               /\ Cardinality({p \in Cells(c) : DayAt(c, p).Date = MonthDay(c, d)}) = 1
               /\ \A p \in Cells(c) :
                      DayAt(c, p).Date = MonthDay(c, d)
                          => DayAt(c, p).IsCurrentMonth /\ DayAt(c, p).DayNumber = d
        /\ \A p \in Cells(c) :
               DayAt(c, p).IsCurrentMonth
                   => \E d \in 1..DaysIn(c.Month, c.Year) : DayAt(c, p).Date = MonthDay(c, d)

\* February of a leap year between fillers of January and March
C2_Witness ==
    /\ pc = "built"
    /\ cal.Year = 2024 /\ cal.Month = 2
    /\ ~cal.Weeks[1][1].IsCurrentMonth
    /\ ~cal.Weeks[Len(cal.Weeks)][7].IsCurrentMonth
    /\ \E p \in Cells(cal) : DayAt(cal, p).IsCurrentMonth /\ DayAt(cal, p).DayNumber = 29

\* C3: the grid holds the minimal number of whole weeks: with offset =
\* (weekday of day 1 - weekStart + 7) mod 7, in 0..6, and L the month length,
\* the number of weeks is ceil((offset + L) / 7), which is 4, 5 or 6; the
\* first week holds day 1, the last week holds the last day, and no week lies
\* wholly outside the month.
C3_MinimalWeeks ==
    \A c \in Grids :
        LET L == DaysIn(c.Month, c.Year)
            offset == (Weekday(MonthDay(c, 1)) - c.WeekStart + 7) % 7
            n == Len(c.Weeks)
        IN /\ offset \in 0..6
           /\ 7 * n >= offset + L
           /\ 7 * (n - 1) < offset + L
           /\ n \in {4, 5, 6}
           /\ \E p \in Cells(c) : p[1] = 1 /\ DayAt(c, p).Date = MonthDay(c, 1)
           /\ \E p \in Cells(c) : p[1] = n /\ DayAt(c, p).Date = MonthDay(c, L)
           /\ \A w \in 1..n : \E p \in Cells(c) : p[1] = w /\ DayAt(c, p).IsCurrentMonth

\* a January of 5 weeks whose clone for February has 4 weeks
C3_Witness ==
    /\ pc = "built"
    /\ Len(cal.Weeks) = 5
    /\ clone.cal.Month = 2
    /\ Len(clone.cal.Weeks) = 4

(***************************************************************************)
(* Properties of the load (specification SpecLoad).                        *)
(***************************************************************************)
\* a record on its own: its key, its date in the configured year, and each
\* of its three fields evaluated whatever the others gave
OnItsOwn(day, k, dt) ==
    [day |-> day, key |-> k, date |-> dt,
     text |-> evaluateExpressionsWithSkip(day.Text, cfg, dt),
     icon |-> evaluateExpressionsWithSkip(day.Icon, cfg, dt),
     font |-> evaluateExpressionsWithSkip(day.Font, cfg, dt)]

Keyed(day, k) == OnItsOwn(day, k, TimeDate(cfg.Year, k.key.month, k.key.day))

\* the records of the file from record i on, each on its own
RECURSIVE EachFrom(_)
EachFrom(i) ==
    IF i > Len(file.Day) THEN <<>>
    ELSE <<Keyed(file.Day[i],
                 specialDaysKeyFromString(file.DateFormat, file.Day[i].When, cfg))>>
         \o EachFrom(i + 1)

Each == EachFrom(1)

Resolves(r) == r.key.err = NoErr
NoFieldErrs(r) == r.text.err = NoErr /\ r.icon.err = NoErr /\ r.font.err = NoErr
SomeSkip(r) == r.text.skip \/ r.icon.skip \/ r.font.skip
Clean(r) == Resolves(r) /\ NoFieldErrs(r)

\* the load was run on a file that decodes
Decoded == pc # "start" /\ file.name # "" /\ file.decodes

\* the record with its three fields substituted
Substituted(r) ==
    [Date |-> r.date, Holiday |-> r.day.Holiday, Icon |-> r.icon.result,
     Note |-> [Text |-> r.text.result, Font |-> r.font.result, Size |-> r.day.Size]]

\* the store of a file of clean records: the records that no field asks to
\* skip, each under its key, the last one of a key standing
StoreOf(recs, kept) ==
    /\ DOMAIN days.m = {recs[i].key.key : i \in kept}
    /\ \A i \in kept :
           (\A j \in kept : recs[j].key.key = recs[i].key.key => j <= i)
               => days.m[recs[i].key.key] = Substituted(recs[i])

CleanFile(recs) ==
    /\ \A i \in DOMAIN recs : Clean(recs[i])
    /\ pc = "loaded"
    /\ err = LoadNoErr
    /\ ~days.nil
    /\ StoreOf(recs, {i \in DOMAIN recs : ~SomeSkip(recs[i])})

\* C4: when no field of a record raises an error and some sub-expression of
\* its text, icon or font is <= 0, the load succeeds (nil error) and the
\* store has no entry produced by the record; when no field errors and no
\* sub-expression is <= 0, the record is stored under its key with its three
\* fields substituted.  Skip is never reported as an error.
C4_SkipOmitsRecord ==
    Decoded => LET recs == Each IN
                   (\A i \in DOMAIN recs : Clean(recs[i])) => CleanFile(recs)

\* in 2024 the icon of the first record evaluates to 0 and the record is
\* omitted, the second record is stored with its fields substituted
C4_Witness ==
    /\ pc = "loaded"
    /\ cfg.Year = 2024
    /\ file.Day = <<R_skipIcon, R_leap>>
    /\ err = LoadNoErr
    /\ DOMAIN days.m = {[month |-> 2, day |-> 29]}
    /\ days.m[[month |-> 2, day |-> 29]].Note.Text = <<"2", "0", "2", "4", "-", "2", "-", "2", "9">>
    /\ days.m[[month |-> 2, day |-> 29]].Icon = <<"i", "2", "0", "2", "4", "-", "2", "-", "2", "9">>

\* the load failed with an evaluation error of record r
FailedOn(r) ==
    /\ pc = "failed"
    /\ days.nil
    /\ err.when = r.day.When
    /\ err.stage \in {"text", "icon", "font"}

\* C5: the evaluator is applied to text, icon and font of every record, all
\* three always, and errors take priority over skip: a record one of whose
\* fields is malformed makes the load fail with that record's error even
\* when an earlier field of it signalled skip.
C5_ErrorsBeforeSkip ==
    Decoded => LET recs == Each IN
                   \A i \in DOMAIN recs :
                       ((\A j \in 1..(i - 1) : Clean(recs[j]))
                            /\ Resolves(recs[i]) /\ ~NoFieldErrs(recs[i]))
                           => FailedOn(recs[i])

\* the text of the record signals skip (year - 2024 = 0), its icon is
\* malformed, and the load succeeds with an empty store
C5_Witness ==
    /\ pc = "loaded"
    /\ cfg.Year = 2024
    /\ file.Day = <<R_skipTextBadIcon>>
    /\ Each[1].text.skip
    /\ Each[1].icon.err # NoErr
    /\ err = LoadNoErr
    /\ DOMAIN days.m = {}

\* the record fails: its when does not resolve, or a field that is evaluated
\* (no earlier field of the record having signalled skip) has an error
Fails(r) ==
    \/ ~Resolves(r)
    \/ r.text.err # NoErr
    \/ ~r.text.skip /\ r.icon.err # NoErr
    \/ ~r.text.skip /\ r.icon.err = NoErr /\ ~r.icon.skip /\ r.font.err # NoErr

\* the error of a failing record
FailureOf(r) ==
    IF ~Resolves(r) THEN LoadErr("when", r.day.When, r.key.err)
    ELSE IF r.text.err # NoErr THEN LoadErr("text", r.day.When, r.text.err)
    ELSE IF r.icon.err # NoErr THEN LoadErr("icon", r.day.When, r.icon.err)
    ELSE LoadErr("font", r.day.When, r.font.err)

FirstFailureReturned(recs) ==
    /\ pc = "failed" <=> \E i \in DOMAIN recs : Fails(recs[i])
    /\ \A i \in DOMAIN recs :
           (Fails(recs[i]) /\ \A j \in 1..(i - 1) : ~Fails(recs[j]))
               => err = FailureOf(recs[i]) /\ days = NilDays

\* C6: loading is all-or-nothing and stops at the first failure in record
\* order: if the when of a record does not resolve or an evaluated field of a
\* record is malformed, the load returns a nil store and the single error of
\* the first failing record in file order, whatever the records after it
\* are, and none of the records resolved before it is returned.
C6_AllOrNothing ==
    /\ Decoded => FirstFailureReturned(Each)
    /\ pc = "failed" => days = NilDays /\ err # LoadNoErr
    /\ pc = "loaded" => err = LoadNoErr

\* a record that would be stored, then a record whose when is no date
C6_Witness ==
    /\ pc = "failed"
    /\ file.Day = <<R_plain, R_badWhen>>
    /\ days = NilDays
    /\ err.stage = "when"
    /\ err.when = Wh_31_4

\* the text a record made of the three date identifiers must give under key
YearMonthDay(key) ==
    Itoa(cfg.Year) \o <<"-">> \o Itoa(key.month) \o <<"-">> \o Itoa(key.day)

\* C9: for every record that resolves to key (m, d) and is loaded with
\* configured year Y, the identifiers year, month and day evaluate to Y, m
\* and d in its text, icon and font, for every key the resolver can return.
C9_DateIdentifiers ==
    (pc = "loaded" /\ file.name # "") =>
        \A key \in DOMAIN days.m :
            /\ (\A i \in 1..Len(file.Day) : file.Day[i].Text = D_text)
                   => days.m[key].Note.Text = YearMonthDay(key)
            /\ (\A i \in 1..Len(file.Day) : file.Day[i].Icon = D_icon)
                   => days.m[key].Icon = <<"i">> \o YearMonthDay(key)
            /\ (\A i \in 1..Len(file.Day) : file.Day[i].Font = D_font)
                   => days.m[key].Note.Font = <<"f">> \o YearMonthDay(key)

\* 29/2 loaded for 2023: the record is stored under (2, 29) with month 3 and
\* day 1 in its text
C9_Witness ==
    /\ pc = "loaded"
    /\ cfg.Year = 2023
    /\ file.Day = <<R_leap>>
    /\ DOMAIN days.m = {[month |-> 2, day |-> 29]}
    /\ days.m[[month |-> 2, day |-> 29]].Note.Text = <<"2", "0", "2", "3", "-", "3", "-", "1">>
    /\ days.m[[month |-> 2, day |-> 29]].Date = [y |-> 2023, m |-> 3, d |-> 1]

(***************************************************************************)
(* Properties of the evaluator (specification SpecEval).                   *)
(***************************************************************************)
\* the value of an operand: the date of the special day for year, month and
\* day, the Config for cfg.year and cfg.month, its number for a literal
OperandValue(o, c, dt) ==
    CASE o.kind = "year" -> dt.y
      [] o.kind = "month" -> dt.m
      [] o.kind = "day" -> dt.d
      [] o.kind = "cfg.year" -> c.Year
      [] o.kind = "cfg.month" -> c.Month
      [] OTHER -> o.n

\* + and - applied strictly left to right over the first i operands of rest
RECURSIVE LeftToRight(_, _, _, _)
LeftToRight(e, i, c, dt) ==
    IF i = 0 THEN OperandValue(e.first, c, dt)
    ELSE IF e.rest[i][1] = "+"
    THEN LeftToRight(e, i - 1, c, dt) + OperandValue(e.rest[i][2], c, dt)
    ELSE LeftToRight(e, i - 1, c, dt) - OperandValue(e.rest[i][2], c, dt)

ExprValue(e, c, dt) == LeftToRight(e, Len(e.rest), c, dt)

\* an expression of identifiers of the fixed set and of literals that carry
\* no "+" sign, joined by + and -
PlainOperand(o) == o.kind \notin {"bad", "plus"}
PlainExpr(e) ==
    /\ PlainOperand(e.first)
    /\ \A i \in 1..Len(e.rest) : e.rest[i][1] \in {"+", "-"} /\ PlainOperand(e.rest[i][2])

Markers(parts) == {k \in 1..Len(parts) : parts[k].marker}
AllPlain(parts) == \A k \in Markers(parts) : PlainExpr(parts[k].e)

\* the text with every marker replaced by the decimal string of its value
RECURSIVE Expected(_, _, _)
Expected(parts, c, dt) ==
    IF parts = <<>> THEN <<>>
    ELSE (IF Head(parts).marker THEN Itoa(ExprValue(Head(parts).e, c, dt))
          ELSE Head(parts).s) \o Expected(Tail(parts), c, dt)

\* C7: evaluateExpressionsWithSkip replaces every ((...)) marker by the
\* decimal string of its value, + and - being applied strictly left to right
\* (no precedence), and leaves the text outside the markers unchanged; a text
\* with no marker, the empty text included, is returned unchanged with skip
\* false.  With year 2024, year - 2000 + 10 gives 34 and "Year ((year)) has
\* ((year - 2000)) years since 2000" gives "Year 2024 has 24 years since 2000".
C7_Substitution ==
    pc = "evaluated" =>
        /\ AllPlain(text) => out.err = NoErr /\ out.result = Expected(text, cfg, date)
        /\ Markers(text) = {} =>
               out = [result |-> Render(text), skip |-> FALSE, err |-> NoErr]
        /\ (text = Ex_sum /\ date.y = 2024) => out.result = <<"3", "4">>
        /\ (text = Ex_years /\ date.y = 2024)
               => out.result = <<"Y", "e", "a", "r", " ", "2", "0", "2", "4", " ", "h", "a", "s", " ", "2", "4", " ", "y", "e", "a", "r", "s", " ", "s", "i", "n", "c", "e", " ", "2", "0", "0", "0">>

\* the text of the documentation evaluated for a day of 2024
C7_Witness ==
    /\ pc = "evaluated"
    /\ text = Ex_years
    /\ date.y = 2024
    /\ Render(text) = <<"Y", "e", "a", "r", " ", "(", "(", "y", "e", "a", "r", ")", ")", " ", "h", "a", "s", " ", "(", "(", "y", "e", "a", "r", " ", "-", " ", "2", "0", "0", "0", ")", ")", " ", "y", "e", "a", "r", "s", " ", "s", "i", "n", "c", "e", " ", "2", "0", "0", "0">>
    /\ out.result = <<"Y", "e", "a", "r", " ", "2", "0", "2", "4", " ", "h", "a", "s", " ", "2", "4", " ", "y", "e", "a", "r", "s", " ", "s", "i", "n", "c", "e", " ", "2", "0", "0", "0">>
    /\ ~out.skip

\* C8: the skip flag is true if and only if at least one sub-expression of
\* the text evaluates to a value <= 0, exactly 0 included, wherever it stands
\* and whatever the others give; ((year - 2011)) gives "13" without skip for
\* 2024 and -1 with skip for 2010.
C8_SkipFlag ==
    pc = "evaluated" =>
        /\ AllPlain(text) =>
               (out.skip <=> \E k \in Markers(text) : ExprValue(text[k].e, cfg, date) <= 0)
        /\ (text = Ex_since /\ date.y = 2024) => out.result = <<"1", "3">> /\ ~out.skip
        /\ (text = Ex_since /\ date.y = 2010) => out.result = <<"-", "1">> /\ out.skip

\* three markers, the middle one exactly 0 between two positive ones
C8_Witness ==
    /\ pc = "evaluated"
    /\ text = Ex_middle
    /\ date.y = 2024
    /\ out.result = <<"2", "0", "2", "5", "0", "4">>
    /\ out.skip

\* a marker that holds one identifier and nothing else
OneIdentifier(parts) ==
    /\ Len(parts) = 1
    /\ parts[1].marker
    /\ parts[1].e.rest = <<>>
    /\ parts[1].e.first.kind \notin {"lit", "plus"}

\* a marker of the text holds an identifier outside the fixed set
SomeUnknown(parts) ==
    \E k \in Markers(parts) :
        \/ parts[k].e.first \in {O_foo, O_cfgDay}
        \/ \E i \in 1..Len(parts[k].e.rest) : parts[k].e.rest[i][2] \in {O_foo, O_cfgDay}

\* C10: identifiers are matched whatever their case and only year, month,
\* day, cfg.year and cfg.month are accepted: cfg.year and cfg.month give the
\* year and month of the Config, whatever the date of the record, and any
\* other identifier, another cfg property included, is an error.
C10_Identifiers ==
    pc = "evaluated" =>
        /\ OneIdentifier(text) =>
               LET o == text[1].e.first IN
                   /\ o.kind = "year" => out.err = NoErr /\ out.result = Itoa(date.y)
                   /\ o.kind = "month" => out.err = NoErr /\ out.result = Itoa(date.m)
                   /\ o.kind = "day" => out.err = NoErr /\ out.result = Itoa(date.d)
                   /\ o.kind = "cfg.year" => out.err = NoErr /\ out.result = Itoa(cfg.Year)
                   /\ o.kind = "cfg.month" => out.err = NoErr /\ out.result = Itoa(cfg.Month)
                   /\ o = O_foo => out.err = "unknown variable"
                   /\ o = O_cfgDay => out.err = "unknown config property"
        /\ SomeUnknown(text) => out.err # NoErr /\ out.result = <<>>

\* ((CFG.Year)) for a day of 2024 under a Config of 2010
C10_Witness ==
    /\ pc = "evaluated"
    /\ Render(text) = <<"(", "(", "C", "F", "G", ".", "Y", "e", "a", "r", ")", ")">>
    /\ cfg.Year = 2010
    /\ date.y = 2024
    /\ out.result = <<"2", "0", "1", "0">>

\* an expression of identifiers of the fixed set and of literals, signed
\* with "+" or "-" or unsigned, joined by + and -
SignedOperand(o) == o.kind # "bad"
SignedExpr(e) ==
    /\ SignedOperand(e.first)
    /\ \A i \in 1..Len(e.rest) : e.rest[i][1] \in {"+", "-"} /\ SignedOperand(e.rest[i][2])

AllSigned(parts) == \A k \in Markers(parts) : SignedExpr(parts[k].e)

\* C11: an integer literal operand may carry a sign: a literal with a
\* leading "+" or "-" is accepted in first position and after an operator
\* and evaluates to the signed value; ((-5 + year)), ((+5)), ((year - -5))
\* and ((year + +5)) all evaluate without error.
C11_SignedLiterals ==
    (pc = "evaluated" /\ AllSigned(text)) =>
        out.err = NoErr /\ out.result = Expected(text, cfg, date)

\* ((+5)) evaluated: the tokenizer makes "+" an operator token in first
\* position and the evaluation ends with an error
C11_Witness ==
    /\ pc = "evaluated"
    /\ Render(text) = <<"(", "(", "+", "5", ")", ")">>
    /\ tokenizeExpression(<<"+", "5">>) = <<<<"+">>, <<"5">>>>
    /\ out.err = "empty token"
    /\ out.result = <<>>

\* a marker of the text is malformed: an unknown identifier, an operator
\* other than + and -, a missing operand, an empty expression
SomeMalformed(parts) == \E k \in Markers(parts) : ~SignedExpr(parts[k].e)

\* C12: no partial substitution: if a marker of a text is malformed, the
\* evaluation returns an error with an empty result and skip false, wherever
\* the malformed marker stands and whatever the other markers give, a value
\* <= 0 included (within one field, error wins over skip).
C12_NoPartialSubstitution ==
    pc = "evaluated" =>
        /\ SomeMalformed(text) => out.err # NoErr
        /\ out.err # NoErr => out.result = <<>> /\ ~out.skip

\* a marker that evaluates to 0, then an unknown identifier
C12_Witness ==
    /\ pc = "evaluated"
    /\ Render(text) = <<"(", "(", "0", ")", ")", "(", "(", "f", "o", "o", ")", ")">>
    /\ out = [result |-> <<>>, skip |-> FALSE, err |-> "unknown variable"]

(***************************************************************************)
(* Properties of the resolver (specification SpecKey).                     *)
(***************************************************************************)
Resolved == pc # "when"

\* a relative 'when' with a weekday name and a month of the year
RelativeIn(w, ordinals) ==
    w.kind = "relative" /\ w.n \in ordinals /\ w.w \in 0..6 /\ w.month \in 1..12

\* the days of month m of year y that fall on weekday wd, up to day d
OccurrencesUpTo(y, m, wd, d) ==
    {e \in 1..d : Weekday([y |-> y, m |-> m, d |-> e]) = wd}

Occurrences(y, m, wd) == OccurrencesUpTo(y, m, wd, DaysIn(m, y))

\* 1 + ((targetWeekday - firstWeekday + 7) mod 7) + (N - 1) * 7
TargetDay(y, m, wd, n) ==
    1 + ((wd - Weekday([y |-> y, m |-> m, d |-> 1]) + 7) % 7) + (n - 1) * 7

\* C13: for every configured year, month 1..12, weekday and ordinal N in 1..4
\* (1st..4th or first..fourth), ((<ordinal> <weekday>))/<month> resolves to the
\* key (month, targetDay) with targetDay = 1 + ((targetWeekday - firstWeekday
\* + 7) mod 7) + (N - 1) * 7, which is the N-th such weekday of that month of
\* the configured year, whatever the configured month: ((3rd sunday))/10 in
\* 2024 is day 20, ((1st friday))/3 in 2024 is day 1.
C13_NthWeekday ==
    (Resolved /\ RelativeIn(text, 1..4)) =>
        /\ out.err = NoErr
        /\ out.key.month = text.month
        /\ out.key.day = TargetDay(cfg.Year, text.month, text.w, text.n)
        /\ out.key.day \in Occurrences(cfg.Year, text.month, text.w)
        /\ Cardinality(OccurrencesUpTo(cfg.Year, text.month, text.w, out.key.day)) = text.n
        /\ (cfg.Year = 2024 /\ text.s = <<"(", "(", "1", "s", "t", " ", "f", "r", "i", "d", "a", "y", ")", ")", "/", "3">>) => out.key.day = 1

C13_Witness ==
    /\ Resolved
    /\ text.s = <<"(", "(", "3", "r", "d", " ", "s", "u", "n", "d", "a", "y", ")", ")", "/", "1", "0">>
    /\ cfg = [Year |-> 2024, Month |-> 3]
    /\ out = KeyOk(10, 20)

\* the N-th occurrence of the weekday of a relative 'when' does not exist in
\* its month of the configured year
NoSuchOccurrence(w, y) ==
    /\ RelativeIn(w, 1..5)
    /\ Cardinality(Occurrences(y, w.month, w.w)) < w.n

\* C14: a relative 'when' whose N-th occurrence does not exist in the month
\* (a 5th Monday in a month with four Mondays) makes the resolution fail with
\* the failure of an occurrence out of range, which is not the failure of a
\* 'when' that neither strategy parses.
C14_OutOfRangeReported ==
    (Resolved /\ NoSuchOccurrence(text, cfg.Year)) =>
        out.err \notin {NoErr, "can't parse"}

\* February 2024 has four Mondays; 5th is refused as an ordinal, the error of
\* the relative strategy is dropped and the error returned is that of a
\* 'when' that does not parse
C14_Witness ==
    /\ Resolved
    /\ text.s = <<"(", "(", "5", "t", "h", " ", "m", "o", "n", "d", "a", "y", ")", ")", "/", "2">>
    /\ cfg.Year = 2024
    /\ Cardinality(Occurrences(2024, 2, 1)) = 4
    /\ parseRelativeDate(text.s, cfg).err = "invalid ordinal/weekday"
    /\ out = KeyErr("can't parse")
    /\ out = specialDaysKeyFromString(text.layout, <<"1", "8", "-", "3">>, cfg)

\* C15: ((last <weekday>))/<month> always resolves, to the latest day of the
\* month of the configured year that falls on the weekday, a day d with
\* lastDay - 6 <= d <= lastDay: ((last monday))/3 in 2024 is day 25.
C15_LastWeekday ==
    (Resolved /\ RelativeIn(text, {-1})) =>
        /\ out.err = NoErr
        /\ out.key.month = text.month
        /\ out.key.day \in Occurrences(cfg.Year, text.month, text.w)
        /\ \A e \in Occurrences(cfg.Year, text.month, text.w) : e <= out.key.day
        /\ out.key.day >= DaysIn(text.month, cfg.Year) - 6
        /\ out.key.day <= DaysIn(text.month, cfg.Year)

C15_Witness ==
    /\ Resolved
    /\ text.s = <<"(", "(", "l", "a", "s", "t", " ", "m", "o", "n", "d", "a", "y", ")", ")", "/", "3">>
    /\ cfg.Year = 2024
    /\ out = KeyOk(3, 25)

\* C16: a fixed-date 'when' is parsed against the layout of the file and only
\* its month and day are kept: the key is the same for every configured year
\* and month; 18/3 under the layout 2/1 is the key (3, 18).
C16_FixedDate ==
    (Resolved /\ text.kind = "fixed" /\ text.month # 0) =>
        /\ out = KeyOk(text.month, text.day)
        /\ (text.s = Wh_18_3 /\ text.layout = Layout_2_1) => out = KeyOk(3, 18)

C16_Witness ==
    /\ Resolved
    /\ text.s = Wh_18_3
    /\ text.layout = Layout_2_1
    /\ cfg = [Year |-> 2025, Month |-> 0]
    /\ out = KeyOk(3, 18)

\* a 'when' in the relative syntax with a month outside 1..12, a bad ordinal
\* or an unknown weekday
BadRelative(w) ==
    /\ w.kind = "relative"
    /\ w.month \notin 1..12 \/ w.n \notin {-1, 1, 2, 3, 4} \/ w.w \notin 0..6

\* the outcome of the two strategies in their order
FirstSuccess(rel, fixed) ==
    /\ out.err = NoErr <=> (rel.err = NoErr \/ fixed.err = NoErr)
    /\ rel.err = NoErr => out = rel
    /\ (rel.err # NoErr /\ fixed.err = NoErr) => out = KeyOk(fixed.month, fixed.day)
    /\ out.err # NoErr => out = KeyErr("can't parse")

\* C17: the resolver tries the relative strategy first and the fixed one
\* second, the first success wins, and it fails, with the failure of a 'when'
\* that does not parse, exactly when neither succeeds; a 'when' in the relative
\* syntax with a month outside 1..12, a bad ordinal or an unknown weekday gives
\* a failure, never a key, and the failure aborts the load.
C17_RelativeThenFixed ==
    Resolved =>
        /\ FirstSuccess(parseRelativeDate(text.s, cfg), timeParse(text.layout, text.s))
        /\ BadRelative(text) => out = KeyErr("can't parse")
        /\ (out.err # NoErr /\ pc # "start") =>
               /\ pc = "failed"
               /\ days = NilDays
               /\ err = LoadErr("when", text.s, out.err)
        /\ (out.err = NoErr /\ pc # "start") =>
               /\ pc = "loaded"
               /\ DOMAIN days.m = {out.key}

C17_Witness ==
    /\ pc = "failed"
    /\ text.s = <<"(", "(", "3", "r", "d", " ", "m", "o", "n", "d", "a", "y", ")", ")", "/", "1", "3">>
    /\ parseRelativeDate(text.s, cfg).err = "month out of range"
    /\ out = KeyErr("can't parse")
    /\ days = NilDays
    /\ err.stage = "when"

(***************************************************************************)
(* Further properties of the load (specification SpecLoad).                *)
(***************************************************************************)
\* in a load that succeeded, the records that were stored
Stored(r) == Resolves(r) /\ NoFieldErrs(r) /\ ~SomeSkip(r)

\* record j is the last stored record of its key
LastOfKey(recs, j) ==
    /\ Stored(recs[j])
    /\ \A k \in DOMAIN recs :
           (k > j /\ Stored(recs[k])) => recs[k].key.key # recs[j].key.key

\* C18: the store holds at most one entry per (month, day); when two stored
\* records resolve to the same key, a fixed and a relative one included, the
\* later record in file order overwrites the earlier: the entry has the
\* holiday, the icon and the note of the later record.
C18_LaterOverwrites ==
    (pc = "loaded" /\ file.name # "") =>
        LET recs == Each IN
            /\ DOMAIN days.m = {recs[i].key.key : i \in {k \in DOMAIN recs : Stored(recs[k])}}
            /\ \A i, j \in DOMAIN recs :
                   (i < j /\ Stored(recs[i]) /\ recs[i].key.key = recs[j].key.key
                          /\ LastOfKey(recs, j))
                       => /\ days.m[recs[j].key.key].Holiday = recs[j].day.Holiday
                          /\ days.m[recs[j].key.key].Icon = recs[j].icon.result
                          /\ days.m[recs[j].key.key].Note =
                                 [Text |-> recs[j].text.result,
                                  Font |-> recs[j].font.result,
                                  Size |-> recs[j].day.Size]

\* 18/3 and then ((3rd monday))/3, which is 18 March in 2024: one entry, with
\* the note of the relative record
C18_Witness ==
    /\ pc = "loaded"
    /\ cfg = [Year |-> 2024, Month |-> 3]
    /\ file.Day = <<R_plain, R_relative>>
    /\ DOMAIN days.m = {[month |-> 3, day |-> 18]}
    /\ days.m[[month |-> 3, day |-> 18]].Note.Text =
           <<"2", "0", "2", "4", "-", "3", "-", "1", "8">>
    /\ days.m[[month |-> 3, day |-> 18]].Note.Font = <<"2", "0", "2", "4", "/", "3">>

DatesOfYear == {[y |-> cfg.Year, m |-> m, d |-> d] : m \in 1..12, d \in 1..31}

\* C20: an empty filename gives a nil store and a nil error; a lookup on a
\* nil or empty store returns no special day whatever the date, so that a
\* grid built from such a store has no Day with a special day.
C20_NoFileNoSpecialDays ==
    /\ (pc # "start" /\ file.name = "") => days = NilDays /\ err = LoadNoErr /\ pc # "failed"
    /\ (pc # "start" /\ (days.nil \/ DOMAIN days.m = {})) =>
           /\ \A dt \in DatesOfYear : At(days, dt) = NoSpecial
           /\ \A c \in Grids : \A p \in Cells(c) : ~DayAt(c, p).special.ok

\* the grid of March built after a load with an empty filename
C20_Witness ==
    /\ pc = "built"
    /\ file.name = ""
    /\ days = NilDays
    /\ err = LoadNoErr
    /\ cal.Month = 3
    /\ Len(cal.Weeks) >= 5
    /\ \A p \in Cells(cal) : ~DayAt(cal, p).special.ok

(***************************************************************************)
(* Properties of the stored records (specification SpecLoad).              *)
(***************************************************************************)
\* C21: for every stored record the size and the holiday flag are those of
\* the source record, unchanged: they are never evaluated (a size of 0 asks
\* for no skip), and only the text, the icon and the font go through the
\* evaluator.
C21_SizeAndHolidayCopied ==
    (pc = "loaded" /\ file.name # "") =>
        LET recs == Each IN
            \A j \in DOMAIN recs :
                LastOfKey(recs, j) =>
                    /\ recs[j].key.key \in DOMAIN days.m
                    /\ days.m[recs[j].key.key].Holiday = file.Day[j].Holiday
                    /\ days.m[recs[j].key.key].Note.Size = file.Day[j].Size

\* the record of 29 February, a holiday of size 0, stored as such while its
\* three other fields are rewritten
C21_Witness ==
    /\ pc = "loaded"
    /\ cfg.Year = 2024
    /\ file.Day = <<R_plain, R_leap>>
    /\ file.Day[2].Size = 0
    /\ days.m[[month |-> 2, day |-> 29]].Holiday
    /\ days.m[[month |-> 2, day |-> 29]].Note.Size = 0
    /\ days.m[[month |-> 2, day |-> 29]].Note.Text # file.Day[2].Text
    /\ days.m[[month |-> 3, day |-> 18]].Note.Size = 12

(***************************************************************************)
(* Properties of the special days of a grid (specification Spec).          *)
(***************************************************************************)
\* the key of the date of a Day: its month and its day of month
KeyOfDay(d) == [month |-> d.Date.m, day |-> d.Date.d]

\* C22: in every grid a Day has a special day attached if and only if the
\* store holds the key (month, day of month) of the date of the Day, and the
\* value attached is the entry of the store under that key; the year of the
\* date plays no part, and the filler days (IsCurrentMonth false) are looked
\* up like the days of the month.
C22_LookupByMonthDay ==
    \A c \in Grids : \A p \in Cells(c) :
        /\ DayAt(c, p).special.ok <=> KeyOfDay(DayAt(c, p)) \in DOMAIN days.m
        /\ DayAt(c, p).special.ok =>
               DayAt(c, p).special.v = days.m[KeyOfDay(DayAt(c, p))]

\* the grid of December: 1 January of the next year is a filler day and has
\* the special day of the store, whose date is in the configured year
C22_Witness ==
    /\ pc = "built"
    /\ clone.cal.Month = 12
    /\ \E p \in Cells(clone.cal) :
           /\ ~DayAt(clone.cal, p).IsCurrentMonth
           /\ DayAt(clone.cal, p).Date = [y |-> cfg.Year + 1, m |-> 1, d |-> 1]
           /\ DayAt(clone.cal, p).special.ok
           /\ DayAt(clone.cal, p).special.v.Date = [y |-> cfg.Year, m |-> 1, d |-> 1]

\* the grid that a build of its own gives for the year, month and week start
\* of c with the store ds
BuiltAlone(c, ds) == NewCalendar(c.Year, c.Month, c.WeekStart, ds).cal

\* the builds of a run left the store as the load gave it
StoreAsLoaded(loaded) ==
    /\ days = loaded
    /\ \A c \in Grids : c.SpecialDays = loaded /\ c = BuiltAlone(c, loaded)

MonthChecked(r, month) ==
    /\ r.err = "invalid month" <=> month \notin 1..12
    /\ r.err = NoErr <=> month \in 1..12
    /\ r.err # NoErr => r.cal.Weeks = <<>>
    /\ r.err = NoErr => r.cal.Month = month /\ Len(r.cal.Weeks) >= 4

\* C24: NewCalendar, and CloneAt, fail with an invalid-month error if and only
\* if the month is outside 1..12, the whole-year month 0 included; on failure
\* the calendar returned has no weeks, and for every month 1..12 they succeed
\* for every year and every week start 0..6.
C24_InvalidMonth ==
    /\ pc = "loaded" =>
           \A month \in Months, weekStart \in WeekStarts :
               MonthChecked(NewCalendar(cfg.Year, month, weekStart, days), month)
    /\ (pc = "built" /\ cal.Month = 1 /\ clone = NoClone) =>
           \A month \in Months : MonthChecked(CloneAt(cal, month), month)
    /\ calErr # NoErr => pc = "invalid" /\ calErr = "invalid month" /\ cal.Weeks = <<>>
    /\ clone.err # NoErr =>
           pc = "invalid" /\ clone.err = "invalid month" /\ clone.cal.Weeks = <<>>
    /\ pc = "built" => cal.Month \in 1..12 /\ calErr = NoErr /\ clone.err = NoErr

\* a clone for a month outside the year was asked of the calendar of January
C24_Witness ==
    /\ pc = "invalid"
    /\ cal.Month = 1
    /\ clone.err = "invalid month"
    /\ clone.cal.Weeks = <<>>
    /\ CloneAt(cal, 0) = clone

(***************************************************************************)
(* Further properties of the resolver (specification SpecKey).             *)
(***************************************************************************)
\* the text between (( and )) of a relative 'when'
OrdinalWeekdayOf(w) == SubSeq(w.s, 3, LastSlash(w.s, Len(w.s)) - 3)

\* the nth weekday was computed without failure, in the first 28 days
WithinFourWeeks(ow, month, day) ==
    /\ ow.ordinal \in 1..4
    /\ day.err = NoErr
    /\ day.day >= 1 /\ day.day <= 28
    /\ out = KeyOk(month, day.day)

\* C25: for every ordinal the parser accepts other than last (N in 1..4),
\* every month 1..12, every year and every weekday, calculateOrdinalWeekdayDate
\* succeeds with 1 <= targetDay <= 28: its three failure branches (targetDay
\* > 31, weekday mismatch, month overflow) are not reached from
\* parseRelativeDate.
C25_NthAlwaysExists ==
    (Resolved /\ text.kind = "relative" /\ text.month \in 1..12) =>
        LET ow == parseOrdinalWeekday(OrdinalWeekdayOf(text)) IN
            /\ (ow.err = NoErr /\ ow.ordinal # -1) =>
                   WithinFourWeeks(ow, text.month,
                       calculateOrdinalWeekdayDate(cfg, text.month, ow.ordinal, ow.weekday))
            /\ parseRelativeDate(text.s, cfg).err # "failed to calculate date"

\* 7 March 2024 is a Thursday: the fourth Thursday is the 28th
C25_Witness ==
    /\ Resolved
    /\ text.s = <<"(", "(", "4", "t", "h", " ", "t", "h", "u", "r", "s", "d", "a", "y", ")", ")", "/", "3">>
    /\ cfg.Year = 2024
    /\ parseOrdinalWeekday(OrdinalWeekdayOf(text)) = [err |-> NoErr, ordinal |-> 4, weekday |-> 4]
    /\ calculateOrdinalWeekdayDate(cfg, 3, 4, 4) = DayOk(28)
    /\ out = KeyOk(3, 28)

(***************************************************************************)
(* Properties of the skipped records (specification SpecLoad).             *)
(***************************************************************************)
\* in a load that succeeded, the records that were skipped
Skipped(r) == Resolves(r) /\ ~Stored(r)

\* C26: a record that is skipped neither writes to the store nor removes from
\* it: after the load the entry of a key is the last record in file order
\* that resolved to the key and was not skipped, so that an earlier stored
\* record survives a later skipped record of the same key, and a key that
\* only skipped records resolve to has no entry.
C26_SkipLeavesStore ==
    (pc = "loaded" /\ file.name # "") =>
        LET recs == Each IN
            /\ \A i \in DOMAIN recs :
                   LastOfKey(recs, i) => /\ recs[i].key.key \in DOMAIN days.m
                                         /\ days.m[recs[i].key.key] = Substituted(recs[i])
            /\ \A i \in DOMAIN recs :
                   (Skipped(recs[i]) /\ recs[i].key.key \in DOMAIN days.m) =>
                       \E j \in DOMAIN recs :
                           /\ j # i
                           /\ LastOfKey(recs, j)
                           /\ recs[j].key.key = recs[i].key.key

\* 18/3 stored, then a record on 18/3 whose icon asks for a skip in 2024
C26_Witness ==
    /\ pc = "loaded"
    /\ cfg.Year = 2024
    /\ file.Day = <<R_plain, R_skipIcon>>
    /\ Each[2].icon.skip
    /\ DOMAIN days.m = {[month |-> 3, day |-> 18]}
    /\ days.m[[month |-> 3, day |-> 18]].Icon = P_icon
    /\ days.m[[month |-> 3, day |-> 18]].Note.Size = 12

(***************************************************************************)
(* Properties of the dates of the special days of a grid (Spec).           *)
(***************************************************************************)
\* C27: in a grid built for the year the store was loaded with, every Day of
\* the month (IsCurrentMonth true) that has a special day attached has the
\* date of that special day: same year, month and day.
C27_SpecialDateIsDayDate ==
    \A c \in Grids :
        c.Year = cfg.Year =>
            \A p \in Cells(c) :
                (DayAt(c, p).IsCurrentMonth /\ DayAt(c, p).special.ok) =>
                    DayAt(c, p).special.v.Date = DayAt(c, p).Date

\* 29 February in the grid of February 2024
C27_Witness ==
    /\ pc = "built"
    /\ cfg.Year = 2024
    /\ cal.Year = 2024
    /\ cal.Month = 2
    /\ \E p \in Cells(cal) :
           /\ DayAt(cal, p).IsCurrentMonth
           /\ DayAt(cal, p).special.ok
           /\ DayAt(cal, p).Date = [y |-> 2024, m |-> 2, d |-> 29]
           /\ DayAt(cal, p).special.v.Date = [y |-> 2024, m |-> 2, d |-> 29]

(***************************************************************************)
(* Properties of cfg.month in a load (specification SpecReload).           *)
(***************************************************************************)
W_cfgMonthMarker == <<"(", "(", "c", "f", "g", ".", "m", "o", "n", "t", "h", ")", ")">>

\* the marker ((cfg.month)), in any case of its letters, stands at s[i]
CfgMonthAt(s, i) ==
    /\ i + Len(W_cfgMonthMarker) - 1 <= Len(s)
    /\ SubSeq(ToLower(s), i, i + Len(W_cfgMonthMarker) - 1) = W_cfgMonthMarker

HoldsCfgMonth(s) == \E i \in 1..Len(s) : CfgMonthAt(s, i)

\* text, icon or font of the record holds the marker
AsksCfgMonth(day) ==
    HoldsCfgMonth(day.Text) \/ HoldsCfgMonth(day.Icon) \/ HoldsCfgMonth(day.Font)

\* the field is the text before the marker, the configured month, the text
\* after the marker
MonthVerbatim(field, result) ==
    \A i \in 1..Len(field) :
        CfgMonthAt(field, i) =>
            \/ result = SubSeq(field, 1, i - 1) \o Itoa(cfg.Month)
                            \o From(field, i + Len(W_cfgMonthMarker) - 1)
            \/ \E j \in 1..Len(field) : j # i /\ j + 1 <= Len(field)
                                        /\ field[j] = "(" /\ field[j + 1] = "("

\* record i of a whole-year load is omitted from the store
OmittedAt(recs, i) ==
    /\ SomeSkip(recs[i])
    /\ ~Stored(recs[i])
    /\ pc = "loaded" =>
           \/ recs[i].key.key \notin DOMAIN days.m
           \/ \E j \in DOMAIN recs : j # i /\ LastOfKey(recs, j)
                                     /\ recs[j].key.key = recs[i].key.key
                                     /\ days.m[recs[j].key.key] = Substituted(recs[j])

\* C28: cfg.month evaluates to the configured month as it is, the whole-year
\* month 0 included: when the store is loaded for a whole-year render
\* (configured month 0), every record one of whose text, icon or font holds
\* ((cfg.month)) is omitted from the store (skip), without error; with a
\* configured month 1..12 the marker is replaced by that month.
C28_CfgMonthVerbatim ==
    Decoded =>
        LET recs == Each IN
            \A i \in DOMAIN recs :
                (AsksCfgMonth(file.Day[i]) /\ Clean(recs[i])) =>
                    /\ MonthVerbatim(file.Day[i].Text, recs[i].text.result)
                    /\ MonthVerbatim(file.Day[i].Icon, recs[i].icon.result)
                    /\ cfg.Month = 0 =>
                           /\ OmittedAt(recs, i)
                           /\ (\A j \in DOMAIN recs : Clean(recs[j])) =>
                                  pc = "loaded" /\ err = LoadNoErr

\* a whole-year load of 18/3 and of a record on 18/3 with ((cfg.month)) in
\* its text: the load succeeds and the entry is that of the first record
C28_Witness ==
    /\ pc = "loaded"
    /\ cfg.Month = 0
    /\ file.Day = <<R_plain, R_monthText>>
    /\ err = LoadNoErr
    /\ evaluateExpressionsWithSkip(M_text, cfg, NoDate).skip
    /\ DOMAIN days.m = {[month |-> 3, day |-> 18]}
    /\ days.m[[month |-> 3, day |-> 18]].Note.Text = P_text
    /\ ~days.m[[month |-> 3, day |-> 18]].Holiday

(***************************************************************************)
(* Properties of the order of the Days of a grid (specification Spec).     *)
(***************************************************************************)
\* the Days of a grid read week by week and left to right
RECURSIVE Flatten(_)
Flatten(weeks) == IF weeks = <<>> THEN <<>> ELSE Head(weeks) \o Flatten(Tail(weeks))

\* a date of the calendar, and the number of its day
IsDate(t) == t.m \in 1..12 /\ t.d >= 1 /\ t.d <= DaysIn(t.m, t.y)
DayNumOf(t) == DayNum(t.y, t.m, t.d)

\* the Days in reading order are consecutive dates, each with the day of
\* month of its date, and those of the month form one run
InDateOrder(ds) ==
    /\ \A k \in 1..Len(ds) : IsDate(ds[k].Date) /\ ds[k].DayNumber = ds[k].Date.d
    /\ \A k \in 1..(Len(ds) - 1) : DayNumOf(ds[k + 1].Date) = DayNumOf(ds[k].Date) + 1
    /\ \A k \in 1..(Len(ds) - 1) :
           (ds[k].IsCurrentMonth /\ ~ds[k + 1].IsCurrentMonth) =>
               \A j \in (k + 1)..Len(ds) : ~ds[j].IsCurrentMonth
    /\ \E k \in 1..Len(ds) : ds[k].IsCurrentMonth

\* C29: reading the grid week by week and left to right, the Days are
\* consecutive calendar dates (each the date before plus one day, across the
\* ends of weeks and months), the DayNumber of every Day is the day of month
\* of its date, and the Days with IsCurrentMonth true form one run.
C29_ConsecutiveDates ==
    \A c \in Grids : InDateOrder(Flatten(c.Weeks))

\* the grid of December 2024 with week start 0: it runs from 1 December to
\* 4 January 2025
C29_Witness ==
    /\ pc = "built"
    /\ clone.cal.Year = 2024
    /\ clone.cal.Month = 12
    /\ clone.cal.WeekStart = 0
    /\ Len(Flatten(clone.cal.Weeks)) = 35
    /\ Flatten(clone.cal.Weeks)[1].Date = [y |-> 2024, m |-> 12, d |-> 1]
    /\ Flatten(clone.cal.Weeks)[32].Date = [y |-> 2025, m |-> 1, d |-> 1]
    /\ Flatten(clone.cal.Weeks)[35].DayNumber = 4
    /\ ~Flatten(clone.cal.Weeks)[35].IsCurrentMonth

(***************************************************************************)
(* Properties of the weekday headers (specification Spec).                 *)
(***************************************************************************)
\* the header over column i (from 0) names the weekday (ws + i) mod 7 in the
\* language
HeaderOf(header, lang, ws) ==
    /\ Len(header) = 7
    /\ \A i \in 0..6 : header[i + 1] = Read(lang, WeekdayKeys[((ws + i) % 7) + 1])

\* every Day of column i (from 0) of the grid falls on weekday (ws + i) mod 7
ColumnsOf(c) ==
    \A p \in Cells(c) : Weekday(DayAt(c, p).Date) = (c.WeekStart + (p[2] - 1)) % 7

\* C30: the weekday headers and the columns of the grid agree: for every week
\* start ws in 0..6, rotateWeekdays(names, ws) gives the 7 names with
\* result[i] = names[(ws + i) mod 7], and in every week of every grid built
\* with that ws the Day in column i falls on weekday (ws + i) mod 7.
C30_HeadersMatchColumns ==
    /\ pc = "rendered" =>
           /\ \E lang \in Languages : HeaderOf(text, lang, cal.WeekStart)
           /\ \A i \in 0..6 :
                  rotateWeekdays(WeekdayKeys, cal.WeekStart)[i + 1]
                      = WeekdayKeys[((cal.WeekStart + i) % 7) + 1]
    /\ \A c \in Grids : c.WeekStart = cal.WeekStart /\ ColumnsOf(c)

\* the headers of a week that starts on Wednesday, over the grid of March
C30_Witness ==
    /\ pc = "rendered"
    /\ cal.WeekStart = 3
    /\ cal.Month = 3
    /\ text = <<"Wed", "Thu", "Fri", "Sat", "Sun", "Mon", "Tue">>
    /\ Weekday(cal.Weeks[2][1].Date) = 3
    /\ Weekday(cal.Weeks[2][7].Date) = 2

====
